---------------------------- MODULE Spec2Model ----------------------------
(***************************************************************************)
(* Verification model of the TauriAge front end (React/TypeScript) and of  *)
(* the vault back end it drives through Tauri commands.                    *)
(*                                                                         *)
(*   Spec       the Key Management tab and the app shell: the handlers of  *)
(*              KeyManagementTab.tsx / App.tsx as asynchronous tasks over  *)
(*              the shared context state and the default vault.            *)
(*   SpecGen    generateKeys of the useAgeOperations hook, one await at a  *)
(*              time, with the tool-provisioning flow.                     *)
(*   SpecMerge  the merge of handleImportConfirm as a function of the      *)
(*              existing and the imported list.                            *)
(*   SpecVault  save_key_storage_cmd inside the back end: temporary file,  *)
(*              rename, crash; two calls in flight.                        *)
(*   SpecPass   get_or_create_passphrase_cmd inside the back end, called   *)
(*              by the app shell and by the key tab.                       *)
(*   SpecDialog the export and the import dialog of the key tab: the       *)
(*              passphrase fields, the validation, the commands.           *)
(*   SpecCodec  the vault codec and load / save of the vault store inside  *)
(*              the back end, over files that can be corrupted or be of a  *)
(*              later format version.                                      *)
(*   SpecHook   the functions of the useKeyStore hook over commands that   *)
(*              succeed or fail.                                           *)
(*   SpecFile   the Encrypt and Decrypt tabs: the selected paths, the      *)
(*              recipients, the identity, and the two file commands.       *)
(*   SpecExplorer  one FileExplorer instance: its initialisation effect,   *)
(*              navigation history and directory loads.                    *)
(***************************************************************************)
EXTENDS Integers, Sequences, FiniteSets, TLC

(***************************************************************************)
(* Bounds                                                                  *)
(***************************************************************************)
MaxOps == 3          \* user operations (clicks) in one run of the key tab
MaxImportId == 2     \* record ids that occur in vaults and export files
MaxImportLen == 2    \* length of the record list of an export file

(***************************************************************************)
(* Values                                                                  *)
(***************************************************************************)
\* The live default vault file: absent, or holding a record list.
NoVault == [exists |-> FALSE, keys |-> <<>>]
Vault(keys) == [exists |-> TRUE, keys |-> keys]
NoPass == "NoPass"               \* autoPassphrase === null
NoKey == [publicKey |-> "null", privateKey |-> "null"]   \* generatedKey === null
NoToast == [title |-> "", keys |-> <<>>]
AutoPass == "auto-passphrase"    \* value returned by get_or_create_passphrase_cmd

\* StoredKey (src/src/utils/file.ts): the fields the handlers read or copy.
StoredKey(i, pub, priv) == [id |-> i, publicKey |-> pub, privateKey |-> priv]

\* AgeKeyPair returned by generate_age_keys.
GeneratedPair == [publicKey |-> "age1gen", privateKey |-> "AGE-SECRET-KEY-GEN"]

\* Records that exist outside the running application: in the vault found at
\* startup and in export files.
FileRecord(i) == StoredKey(i, "age1file", IF i = 1 THEN "AGE-SECRET-KEY-FILE" ELSE "")
FileRecords == {FileRecord(i) : i \in 1..MaxImportId}

RECURSIVE SeqsUpTo(_, _)
SeqsUpTo(S, n) ==
  IF n = 0 THEN {<<>>}
  ELSE LET shorter == SeqsUpTo(S, n - 1)
       IN shorter \cup {Append(s, x) : s \in {q \in shorter : Len(q) = n - 1}, x \in S}

\* A record of an export file written elsewhere that carries the id of a
\* record of this installation with other keys.
ForeignRecord == StoredKey(1, "age1foreign", "")

\* What import_keys_cmd can return: any list of records, as the export file is
\* an external input.
ImportFiles ==
  {f \in SeqsUpTo(FileRecords \cup {ForeignRecord}, MaxImportLen) :
     Len(f) = MaxImportLen}

\* Vaults the application can find at startup: none, or one it saved earlier.
InitialVaults == {NoVault, Vault(<<FileRecord(1)>>)}

Ids(keys) == {keys[i].id : i \in 1..Len(keys)}

\* Array.prototype.filter((_, i) => i !== index)
RemoveAt(keys, index) ==
  [i \in 1..(Len(keys) - 1) |-> IF i < index THEN keys[i] ELSE keys[i + 1]]

VARIABLES
  vault,            \* the live default vault and the record list it decrypts to
  storedKeys,       \* keyManagement.storedKeys   (EncryptionStateContext)
  generatedKey,     \* keyManagement.generatedKey (EncryptionStateContext)
  activeTab,        \* AppContent.activeTab: "keys" or "other"
  inst,             \* number of the KeyManagementTab instance mounted last
  autoPassphrase,   \* KeyManagementTab local state
  isLoadingKeys,    \* KeyManagementTab local state
  isUnlocked,       \* KeyManagementTab local state
  isGenerating,     \* KeyManagementTab local state
  showImportDialog, \* KeyManagementTab local state
  isImporting,      \* KeyManagementTab local state
  toast,            \* the toast the KeyManagementTab instance showed last
  tasks,            \* async handlers suspended at an await
  nextId,           \* next id create_stored_key_cmd assigns
  ops,              \* user operations so far
  deleted,          \* history: ids whose deletion was confirmed and that were
                    \* not imported again since
  durable,          \* history: the ids of deleted whose re-save, of a list
                    \* without that id, was committed to the vault
  gen,              \* one generateKeys request of useAgeOperations (SpecGen)
  merge,            \* one merge of an imported list (SpecMerge)
  store,            \* the vault store: files and save calls (SpecVault)
  pm,               \* the passphrase manager: record and calls (SpecPass)
  dlg,              \* the export and the import dialog (SpecDialog)
  codec,            \* the vault codec and the files it handles (SpecCodec)
  hook,           \* calls of the useKeyStore functions (SpecHook)
  fileop,         \* the Encrypt and Decrypt tabs (SpecFile)
  fx              \* one FileExplorer instance (SpecExplorer)

kmLocal == <<autoPassphrase, isLoadingKeys, isUnlocked, isGenerating,
             showImportDialog, isImporting>>
kmVars == <<vault, storedKeys, generatedKey, activeTab, inst, autoPassphrase,
            isLoadingKeys, isUnlocked, isGenerating, showImportDialog,
            isImporting, toast, tasks, nextId, ops, deleted, durable>>

outsideKeyTab == <<gen, merge, store, pm, dlg, codec, hook, fileop, fx>>
outsideGen == <<kmVars, merge, store, pm, dlg, codec, hook, fileop, fx>>
outsideMerge == <<kmVars, gen, store, pm, dlg, codec, hook, fileop, fx>>
outsideStore == <<kmVars, gen, merge, pm, dlg, codec, hook, fileop, fx>>
outsidePm == <<kmVars, gen, merge, store, dlg, codec, hook, fileop, fx>>
outsideDlg == <<kmVars, gen, merge, store, pm, codec, hook, fileop, fx>>
outsideCodec == <<kmVars, gen, merge, store, pm, dlg, hook, fileop, fx>>
outsideHook == <<kmVars, gen, merge, store, pm, dlg, codec, fileop, fx>>
outsideFile == <<kmVars, gen, merge, store, pm, dlg, codec, hook, fx>>
outsideFx == <<kmVars, gen, merge, store, pm, dlg, codec, hook, fileop>>

vars == <<kmVars, gen, merge, store, pm, dlg, codec, hook, fileop, fx>>

(***************************************************************************)
(* Asynchronous handlers.  A task is a handler suspended at an await: kind *)
(* is the handler, pc the command it awaits, keys/pass/edited/id the values *)
(* its closure captured when it was called (or computed since), inst       *)
(* the component instance it belongs to.                                    *)
(***************************************************************************)
\* before is history: keys as it was when the task was started.
Task(kind, pc, i, keys, pass) ==
  [kind |-> kind, pc |-> pc, inst |-> i, keys |-> keys, pass |-> pass,
   edited |-> NoKey, id |-> 0, n |-> 0, before |-> keys]

\* tasks is a bag: n tells apart the tasks that are equal otherwise.
Spawn(t) ==
  LET n == CHOOSE k \in 0..Cardinality(tasks) :
             /\ [t EXCEPT !.n = k] \notin tasks
             /\ \A j \in 0..(k - 1) : [t EXCEPT !.n = j] \in tasks
  IN tasks' = tasks \cup {[t EXCEPT !.n = n]}

Replace(t, u) == tasks' = (tasks \ {t}) \cup {u}
Finish(t) == tasks' = tasks \ {t}

\* A state setter of a KeyManagementTab instance only has an effect while
\* that instance is mounted.
Mounted(t) == activeTab = "keys" /\ t.inst = inst

ShowToast(t, title, keys) ==
  toast' = IF Mounted(t) THEN [title |-> title, keys |-> keys]
           ELSE toast

ShowToastNow(title) ==
  toast' = [title |-> title, keys |-> <<>>]

KmInit ==
  /\ vault \in InitialVaults
  /\ storedKeys = <<>>
  /\ generatedKey = NoKey
  /\ activeTab = "keys"
  /\ inst = 1
  /\ autoPassphrase = NoPass
  /\ isLoadingKeys = TRUE
  /\ isUnlocked = TRUE
  /\ isGenerating = FALSE
  /\ showImportDialog = FALSE
  /\ isImporting = FALSE
  /\ toast = NoToast
  /\ tasks = {Task("appLoad", "pass", 0, <<>>, NoPass),
              Task("init", "pass", 1, <<>>, NoPass)}
  /\ nextId = MaxImportId + 1
  /\ ops = 0
  /\ deleted = {}
  /\ durable = {}

(***************************************************************************)
(* App.tsx: autoLoadStoredKeys (useEffect on startup)                      *)
(***************************************************************************)
AppPassDone ==
  \E t \in tasks : \E ok \in BOOLEAN :
    /\ t.kind = "appLoad" /\ t.pc = "pass"
    /\ IF ok THEN Replace(t, [t EXCEPT !.pc = "exists", !.pass = AutoPass])
             ELSE Finish(t)
    /\ UNCHANGED <<outsideKeyTab, vault, storedKeys, generatedKey, activeTab, inst, kmLocal,
                   toast, nextId, ops, deleted, durable>>

AppExistsDone ==
  \E t \in tasks : \E ok \in BOOLEAN :
    /\ t.kind = "appLoad" /\ t.pc = "exists"
    /\ IF ok /\ vault.exists THEN Replace(t, [t EXCEPT !.pc = "load"])
                                ELSE Finish(t)
    /\ UNCHANGED <<outsideKeyTab, vault, storedKeys, generatedKey, activeTab, inst, kmLocal,
                   toast, nextId, ops, deleted, durable>>

AppLoadDone ==
  \E t \in tasks : \E ok \in BOOLEAN :
    /\ t.kind = "appLoad" /\ t.pc = "load"
    /\ storedKeys' = IF ok /\ vault.exists THEN vault.keys ELSE storedKeys
    /\ Finish(t)
    /\ UNCHANGED <<outsideKeyTab, vault, generatedKey, activeTab, inst, kmLocal, toast,
                   nextId, ops, deleted, durable>>

(***************************************************************************)
(* KeyManagementTab.tsx: initializeKeyStorage (useEffect on mount)         *)
(***************************************************************************)
InitPassDone ==
  \E t \in tasks : \E ok \in BOOLEAN :
    /\ t.kind = "init" /\ t.pc = "pass"
    /\ IF ok
       THEN /\ Replace(t, [t EXCEPT !.pc = "exists", !.pass = AutoPass])
            /\ autoPassphrase' = IF Mounted(t) THEN AutoPass ELSE autoPassphrase
            /\ UNCHANGED isLoadingKeys
       ELSE /\ Finish(t)
            /\ isLoadingKeys' = IF Mounted(t) THEN FALSE ELSE isLoadingKeys
            /\ UNCHANGED autoPassphrase
    /\ UNCHANGED <<outsideKeyTab, vault, storedKeys, generatedKey, activeTab, inst,
                   isUnlocked, isGenerating, showImportDialog, isImporting, toast,
                   nextId, ops, deleted, durable>>

\* keyStorageExists() turns a rejection of key_storage_exists_cmd into false.
InitExistsDone ==
  \E t \in tasks : \E ok \in BOOLEAN :
    /\ t.kind = "init" /\ t.pc = "exists"
    /\ LET exists == ok /\ vault.exists
       IN IF exists
          THEN Replace(t, [t EXCEPT !.pc = "load"]) /\ UNCHANGED isLoadingKeys
          ELSE /\ Finish(t)
               /\ isLoadingKeys' = IF Mounted(t) THEN FALSE ELSE isLoadingKeys
    /\ UNCHANGED <<outsideKeyTab, vault, storedKeys, generatedKey, activeTab, inst,
                   autoPassphrase, isUnlocked, isGenerating, showImportDialog,
                   isImporting, toast, nextId, ops, deleted, durable>>

InitLoadDone ==
  \E t \in tasks : \E ok \in BOOLEAN :
    /\ t.kind = "init" /\ t.pc = "load"
    /\ storedKeys' = IF ok /\ vault.exists THEN vault.keys ELSE storedKeys
    /\ isLoadingKeys' = IF Mounted(t) THEN FALSE ELSE isLoadingKeys
    /\ Finish(t)
    /\ UNCHANGED <<outsideKeyTab, vault, generatedKey, activeTab, inst, autoPassphrase,
                   isUnlocked, isGenerating, showImportDialog, isImporting, toast,
                   nextId, ops, deleted, durable>>

(***************************************************************************)
(* App.tsx: the sidebar.  Leaving the key tab unmounts KeyManagementTab;   *)
(* returning mounts a new instance with fresh local state, whose effect    *)
(* starts initializeKeyStorage again.                                      *)
(***************************************************************************)
SwitchTab ==
  /\ ops < MaxOps
  /\ ops' = ops + 1
  /\ IF activeTab = "keys"
     THEN /\ activeTab' = "other"
          /\ UNCHANGED <<inst, kmLocal, toast, tasks>>
     ELSE /\ activeTab' = "keys"
          /\ inst' = inst + 1
          /\ autoPassphrase' = NoPass
          /\ isLoadingKeys' = TRUE
          /\ isUnlocked' = TRUE
          /\ isGenerating' = FALSE
          /\ showImportDialog' = FALSE
          /\ isImporting' = FALSE
          /\ toast' = NoToast
          /\ Spawn(Task("init", "pass", inst + 1, <<>>, NoPass))
  /\ UNCHANGED <<outsideKeyTab, vault, storedKeys, generatedKey, nextId, deleted, durable>>

(***************************************************************************)
(* KeyManagementTab.tsx: handleGenerateKeys                                *)
(***************************************************************************)
Generate ==
  /\ activeTab = "keys" /\ ~isGenerating
  /\ ops < MaxOps
  /\ ops' = ops + 1
  /\ isGenerating' = TRUE
  /\ Spawn(Task("gen", "gen", inst, <<>>, NoPass))
  /\ UNCHANGED <<outsideKeyTab, vault, storedKeys, generatedKey, activeTab, inst,
                 autoPassphrase, isLoadingKeys, isUnlocked, showImportDialog,
                 isImporting, toast, nextId, deleted, durable>>

GenerateDone ==
  \E t \in tasks : \E ok \in BOOLEAN :
    /\ t.kind = "gen"
    /\ generatedKey' = IF ok THEN GeneratedPair ELSE NoKey
    /\ isGenerating' = IF Mounted(t) THEN FALSE ELSE isGenerating
    /\ Finish(t)
    /\ UNCHANGED <<outsideKeyTab, vault, storedKeys, activeTab, inst, autoPassphrase,
                   isLoadingKeys, isUnlocked, showImportDialog, isImporting,
                   toast, nextId, ops, deleted, durable>>

(***************************************************************************)
(* KeyManagementTab.tsx: handleStoreGeneratedKey.  The key name is not     *)
(* blank (the button is disabled otherwise); edited is the content of the  *)
(* two key text areas when the button is clicked.                          *)
(***************************************************************************)
\* editedPublicKey / editedPrivateKey: as set by handleGenerateKeys, or ''
\* as in a newly mounted instance.
KeyEdits == {GeneratedPair, [publicKey |-> "", privateKey |-> ""]}

StoreGeneratedKey ==
  \E edited \in KeyEdits :
    /\ activeTab = "keys" /\ generatedKey # NoKey
    /\ ops < MaxOps
    /\ ops' = ops + 1
    /\ IF autoPassphrase = NoPass
       THEN /\ ShowToastNow("Passphrase not ready")
            /\ UNCHANGED tasks
       ELSE /\ Spawn([Task("store", "create", inst, storedKeys, autoPassphrase)
                     EXCEPT !.edited = edited])
            /\ UNCHANGED toast
    /\ UNCHANGED <<outsideKeyTab, vault, storedKeys, generatedKey, activeTab, inst, kmLocal,
                   nextId, deleted, durable>>

\* create_stored_key_cmd returns; newStoredKeys is built from the storedKeys
\* of the render in which the button was clicked.
StoreCreateDone ==
  \E t \in tasks : \E ok \in BOOLEAN :
    /\ t.kind = "store" /\ t.pc = "create"
    /\ IF ok
       THEN LET storedKey == StoredKey(nextId, t.edited.publicKey, t.edited.privateKey)
                newStoredKeys == Append(t.keys, storedKey)
            IN /\ storedKeys' = newStoredKeys
               /\ nextId' = nextId + 1
               /\ Replace(t, [t EXCEPT !.pc = "save", !.keys = newStoredKeys])
               /\ UNCHANGED toast
       ELSE /\ ShowToast(t, "Failed to store key", <<>>)
            /\ Finish(t)
            /\ UNCHANGED <<storedKeys, nextId>>
    /\ UNCHANGED <<outsideKeyTab, vault, generatedKey, activeTab, inst, kmLocal, ops,
                   deleted, durable>>

StoreSaveDone ==
  \E t \in tasks : \E ok \in BOOLEAN :
    /\ t.kind = "store" /\ t.pc = "save"
    /\ IF ok THEN vault' = Vault(t.keys) /\ ShowToast(t, "Key stored & saved!", t.keys)
             ELSE UNCHANGED vault /\ ShowToast(t, "Key stored but not encrypted", <<>>)
    /\ generatedKey' = NoKey
    /\ Finish(t)
    /\ UNCHANGED <<outsideKeyTab, storedKeys, activeTab, inst, kmLocal, nextId, ops, deleted,
                   durable>>

(***************************************************************************)
(* KeyManagementTab.tsx: handleDeleteKey(index) then confirmDelete(index). *)
(* The confirm button is rendered on the row whose id is deleteConfirm,    *)
(* with that row's current index.                                          *)
(***************************************************************************)
DeleteKey ==
  \E index \in 1..Len(storedKeys) :
    /\ activeTab = "keys" /\ ~isLoadingKeys
    /\ ops < MaxOps
    /\ ops' = ops + 1
    /\ storedKeys' = RemoveAt(storedKeys, index)
    /\ deleted' = deleted \cup {storedKeys[index].id}
    /\ IF autoPassphrase # NoPass
       THEN /\ Spawn([Task("delete", "save", inst,
                          RemoveAt(storedKeys, index), autoPassphrase)
                     EXCEPT !.id = storedKeys[index].id])
            /\ UNCHANGED toast
       ELSE /\ ShowToastNow("Key deleted")
            /\ UNCHANGED tasks
    /\ UNCHANGED <<outsideKeyTab, vault, generatedKey, activeTab, inst, kmLocal, nextId,
                   durable>>

DeleteSaveDone ==
  \E t \in tasks : \E ok \in BOOLEAN :
    /\ t.kind = "delete" /\ t.pc = "save"
    /\ IF ok
       THEN /\ vault' = Vault(t.keys)
            /\ durable' = durable \cup (({t.id} \cap deleted) \ Ids(t.keys))
            /\ ShowToast(t, "Key deleted and saved", t.keys)
       ELSE /\ ShowToast(t, "Key deleted but failed to save", <<>>)
            /\ UNCHANGED <<vault, durable>>
    /\ Finish(t)
    /\ UNCHANGED <<outsideKeyTab, storedKeys, generatedKey, activeTab, inst, kmLocal, nextId,
                   ops, deleted>>

(***************************************************************************)
(* KeyManagementTab.tsx: handleLock                                        *)
(***************************************************************************)
Lock ==
  /\ activeTab = "keys" /\ isUnlocked
  /\ ops < MaxOps
  /\ ops' = ops + 1
  /\ isUnlocked' = FALSE
  /\ storedKeys' = <<>>
  /\ ShowToastNow("Keypairs locked")
  /\ UNCHANGED <<outsideKeyTab, vault, generatedKey, activeTab, inst, autoPassphrase,
                 isLoadingKeys, isGenerating, showImportDialog, isImporting,
                 tasks, nextId, deleted, durable>>

(***************************************************************************)
(* KeyManagementTab.tsx: import                                            *)
(***************************************************************************)
\* handleImportClick with a file chosen in the picker.
ImportClick ==
  /\ activeTab = "keys" /\ ~showImportDialog
  /\ showImportDialog' = TRUE
  /\ UNCHANGED <<outsideKeyTab, vault, storedKeys, generatedKey, activeTab, inst,
                 autoPassphrase, isLoadingKeys, isUnlocked, isGenerating,
                 isImporting, toast, tasks, nextId, ops, deleted, durable>>

\* The Cancel button of the import dialog.
ImportCancel ==
  /\ activeTab = "keys" /\ showImportDialog
  /\ showImportDialog' = FALSE
  /\ UNCHANGED <<outsideKeyTab, vault, storedKeys, generatedKey, activeTab, inst,
                 autoPassphrase, isLoadingKeys, isUnlocked, isGenerating,
                 isImporting, toast, tasks, nextId, ops, deleted, durable>>

\* Lengths of the passphrase typed into the import dialog.
PassphraseLengths == {3, 4}
MinPassphraseLength == 4

\* Merge with existing keys (skip duplicates by id).
NewKeysUnfiltered(existing, importedKeys) == importedKeys

NewKeys(existing, importedKeys) ==
  LET notExisting(k) == k.id \notin Ids(existing)
  IN SelectSeq(importedKeys, notExisting)

MergedKeys(existing, importedKeys) == existing \o NewKeys(existing, importedKeys)

handleImportConfirm ==
  \E len \in PassphraseLengths :
    /\ activeTab = "keys" /\ showImportDialog /\ ~isImporting
    /\ ops < MaxOps
    /\ ops' = ops + 1
    /\ IF len < MinPassphraseLength
       THEN /\ ShowToastNow("Enter the passphrase used during export")
            /\ UNCHANGED <<isImporting, tasks>>
       ELSE /\ isImporting' = TRUE
            /\ Spawn(Task("import", "import", inst, storedKeys, autoPassphrase))
            /\ UNCHANGED toast
    /\ UNCHANGED <<outsideKeyTab, vault, storedKeys, generatedKey, activeTab, inst,
                   autoPassphrase, isLoadingKeys, isUnlocked, isGenerating,
                   showImportDialog, nextId, deleted, durable>>

\* import_keys_cmd returns (or rejects); the merge uses the storedKeys of the
\* render in which Import was clicked.
ImportCmdDone ==
  \E t \in tasks : \E ok \in BOOLEAN : \E importedKeys \in ImportFiles :
    /\ t.kind = "import" /\ t.pc = "import"
    /\ IF ok
       THEN LET newKeys == NewKeys(t.keys, importedKeys)
                mergedKeys == MergedKeys(t.keys, importedKeys)
            IN /\ storedKeys' = mergedKeys
               /\ deleted' = deleted \ Ids(newKeys)
               /\ durable' = durable \ Ids(newKeys)
               /\ IF t.pass # NoPass
                  THEN /\ Replace(t, [t EXCEPT !.pc = "save", !.keys = mergedKeys])
                       /\ UNCHANGED <<toast, showImportDialog, isImporting>>
                  ELSE /\ ShowToast(t, "Keys imported!", mergedKeys)
                       /\ showImportDialog' = IF Mounted(t) THEN FALSE ELSE showImportDialog
                       /\ isImporting' = IF Mounted(t) THEN FALSE ELSE isImporting
                       /\ Finish(t)
       ELSE /\ ShowToast(t, "Import failed", <<>>)
            /\ isImporting' = IF Mounted(t) THEN FALSE ELSE isImporting
            /\ Finish(t)
            /\ UNCHANGED <<storedKeys, deleted, durable, showImportDialog>>
    /\ UNCHANGED <<outsideKeyTab, vault, generatedKey, activeTab, inst, autoPassphrase,
                   isLoadingKeys, isUnlocked, isGenerating, nextId, ops>>

ImportSaveDone ==
  \E t \in tasks : \E ok \in BOOLEAN :
    /\ t.kind = "import" /\ t.pc = "save"
    /\ IF ok
       THEN /\ vault' = Vault(t.keys)
            /\ ShowToast(t, "Keys imported!", t.keys)
            /\ showImportDialog' = IF Mounted(t) THEN FALSE ELSE showImportDialog
       ELSE /\ ShowToast(t, "Import failed", <<>>)
            /\ UNCHANGED <<vault, showImportDialog>>
    /\ isImporting' = IF Mounted(t) THEN FALSE ELSE isImporting
    /\ Finish(t)
    /\ UNCHANGED <<outsideKeyTab, storedKeys, generatedKey, activeTab, inst, autoPassphrase,
                   isLoadingKeys, isUnlocked, isGenerating, nextId, ops,
                   deleted, durable>>

KmNext ==
  \/ AppPassDone \/ AppExistsDone \/ AppLoadDone
  \/ InitPassDone \/ InitExistsDone \/ InitLoadDone
  \/ SwitchTab
  \/ Generate \/ GenerateDone
  \/ StoreGeneratedKey \/ StoreCreateDone \/ StoreSaveDone
  \/ DeleteKey \/ DeleteSaveDone
  \/ Lock
  \/ ImportClick \/ ImportCancel \/ handleImportConfirm
  \/ ImportCmdDone \/ ImportSaveDone

(***************************************************************************)
(* useAgeOperations.generateKeys (the version with tool provisioning).     *)
(* Errors are the strings String(error) yields, as token sequences, so     *)
(* that String.prototype.includes is a search for a run of tokens.         *)
(***************************************************************************)
MaxRequests == 2     \* generateKeys requests in one run

NoError == <<>>
ToolMissing == <<"Failed to execute", " ", "age", "-keygen: ", "program ", "not found">>
ToolFailed == <<"age", "-keygen exited with status 1">>
BadOutput == <<"Key generation failed: unparsable output">>
ErrorMessages == {ToolMissing, ToolFailed, BadOutput}

Cancelled == <<"Error: ", "Age installation cancelled by user">>
UnsupportedOS == <<"Error: ", "Unsupported OS: ", "android">>
InstallFailed == <<"Error: ", "Installation", " failed with code ", "1">>
ExecuteError == <<"scoped command not found">>
DialogError == <<"dialog plugin error">>
PlatformError == <<"command get_platform failed">>

Platforms == {"windows", "linux", "macos", "android"}
NullCode == -1                       \* installOutput.code === null
ExitCodes == {0, 1, NullCode}

Includes(message, probe) ==
  \E i \in 1..(Len(message) - Len(probe) + 1) :
    SubSeq(message, i, i + Len(probe) - 1) = probe

IsAgeNotFound(errorMessage) ==
  \/ Includes(errorMessage, <<"age">>)
  \/ Includes(errorMessage, <<"not found">>)
  \/ Includes(errorMessage, <<"Failed to execute">>)
  \/ Includes(errorMessage, <<"program ", "not found">>)

SupportedOS(os) == os \in {"windows", "linux", "macos"}

InstallSucceeded(code) == code = 0 \/ code = NullCode

\* catch (dialogError) { throw error; }
OuterCatchThrowsLatest(error, dialogError) == dialogError

OuterCatch(error, dialogError) == error

GenIdle ==
  [pc |-> "idle", requests |-> 0, invocations |-> 0, prompts |-> 0,
   installs |-> 0, confirmed |-> FALSE, os |-> "", executed |-> "no",
   code |-> 0,
   error |-> NoError, pending |-> NoError, thrown |-> NoError]

Rejected(g, dialogError) ==
  [g EXCEPT !.pc = "rejected", !.thrown = OuterCatch(g.error, dialogError),
            !.pending = NoError]

\* catch (installError): a message dialog unless the error text already
\* names the installation, then the error is thrown on.
InstallCatch(g, installError) ==
  IF ~Includes(installError, <<"Installation">>)
  THEN [g EXCEPT !.pc = "msgError", !.pending = installError]
  ELSE Rejected(g, installError)

\* the retry: return await invoke('generate_age_keys', { comment })
RetryFailedOffersAgain(g, retryError) ==
  [g EXCEPT !.pc = "confirm", !.prompts = @ + 1]

RetryFailed(g, retryError) == InstallCatch(g, retryError)

GenerateKeys ==
  /\ gen.pc \in {"idle", "resolved", "rejected"}
  /\ gen.requests < MaxRequests
  /\ gen' = [GenIdle EXCEPT !.pc = "invoke1", !.requests = gen.requests + 1,
                            !.invocations = 1]
  /\ UNCHANGED outsideGen

Invoke1Done ==
  /\ gen.pc = "invoke1"
  /\ \E r \in {NoError} \cup ErrorMessages :
       gen' = IF r = NoError THEN [gen EXCEPT !.pc = "resolved"]
              ELSE IF IsAgeNotFound(r)
                   THEN [gen EXCEPT !.pc = "confirm", !.error = r,
                                    !.prompts = @ + 1]
                   ELSE [gen EXCEPT !.pc = "rejected", !.error = r, !.thrown = r]
  /\ UNCHANGED outsideGen

ConfirmDone ==
  /\ gen.pc = "confirm"
  /\ \E answer \in {"yes", "no", "throws"} :
       gen' = CASE answer = "yes" -> [gen EXCEPT !.pc = "platform", !.confirmed = TRUE]
                [] answer = "no" -> Rejected(gen, Cancelled)
                [] OTHER -> Rejected(gen, DialogError)
  /\ UNCHANGED outsideGen

PlatformDone ==
  /\ gen.pc = "platform"
  /\ \E os \in Platforms \cup {"throws"} :
       gen' = IF os = "throws" THEN InstallCatch(gen, PlatformError)
              ELSE IF SupportedOS(os)
                   THEN [gen EXCEPT !.pc = "execute", !.os = os,
                                    !.installs = @ + 1]
                   ELSE InstallCatch([gen EXCEPT !.os = os], UnsupportedOS)
  /\ UNCHANGED outsideGen

ExecuteDone ==
  /\ gen.pc = "execute"
  /\ \/ \E code \in ExitCodes :
          gen' = IF InstallSucceeded(code)
                 THEN [gen EXCEPT !.pc = "msgSuccess", !.executed = "exit",
                                  !.code = code]
                 ELSE [gen EXCEPT !.pc = "msgFailed", !.executed = "exit",
                                  !.code = code]
     \/ gen' = InstallCatch([gen EXCEPT !.executed = "threw"], ExecuteError)
  /\ UNCHANGED outsideGen

MsgSuccessDone ==
  /\ gen.pc = "msgSuccess"
  /\ \/ gen' = [gen EXCEPT !.pc = "delay"]
     \/ gen' = InstallCatch(gen, DialogError)
  /\ UNCHANGED outsideGen

DelayDone ==
  /\ gen.pc = "delay"
  /\ gen' = [gen EXCEPT !.pc = "invoke2", !.invocations = @ + 1]
  /\ UNCHANGED outsideGen

Invoke2Done ==
  /\ gen.pc = "invoke2"
  /\ \E r \in {NoError} \cup ErrorMessages :
       gen' = IF r = NoError THEN [gen EXCEPT !.pc = "resolved"]
              ELSE RetryFailed(gen, r)
  /\ UNCHANGED outsideGen

MsgFailedDone ==
  /\ gen.pc = "msgFailed"
  /\ \/ gen' = InstallCatch(gen, InstallFailed)
     \/ gen' = InstallCatch(gen, DialogError)
  /\ UNCHANGED outsideGen

MsgErrorDone ==
  /\ gen.pc = "msgError"
  /\ \/ gen' = Rejected(gen, gen.pending)
     \/ gen' = Rejected(gen, DialogError)
  /\ UNCHANGED outsideGen

(***************************************************************************)
(* handleImportConfirm: the merge and the import report, for any existing  *)
(* and imported list.                                                      *)
(***************************************************************************)
MaxMergeId == 3      \* record ids in the merged lists
MaxMergeLen == 2     \* length of the existing and of the imported list

MergeRecords ==
  {StoredKey(i, pub, "") : i \in 1..MaxMergeId, pub \in {"age1a", "age1b"}}
MergeLists == SeqsUpTo(MergeRecords, MaxMergeLen)

\* `${newKeys.length} new key(s) added (${importedKeys.length -
\* newKeys.length} duplicate(s) skipped)`
ImportReport(existing, importedKeys) ==
  [new |-> Len(NewKeys(existing, importedKeys)),
   duplicates |-> Len(importedKeys) - Len(NewKeys(existing, importedKeys))]

MergeIdle ==
  [pc |-> "idle", existing |-> <<>>, imported |-> <<>>, merged |-> <<>>,
   report |-> [new |-> 0, duplicates |-> 0]]

MergeInit ==
  \E existing \in MergeLists : \E imported \in MergeLists :
    merge = [MergeIdle EXCEPT !.pc = "imported", !.existing = existing,
                              !.imported = imported]

MergeImported ==
  /\ merge.pc = "imported"
  /\ merge' = [merge EXCEPT !.pc = "merged",
                 !.merged = MergedKeys(merge.existing, merge.imported),
                 !.report = ImportReport(merge.existing, merge.imported)]
  /\ UNCHANGED outsideMerge

(***************************************************************************)
(* VaultStore.save behind save_key_storage_cmd: encrypt, write the blob to *)
(* a temporary file in the vault's directory, rename it over the vault.    *)
(* A file is the sequence of the chunks written so far; a blob is complete *)
(* when all its chunks are there.  committed, lastRename and overlapped    *)
(* are history: the list renamed into place last, the call that did it,    *)
(* and whether a call started while another was in flight.                 *)
(***************************************************************************)
MaxSaves == 2        \* save calls in one run
BlobChunks == 2      \* writes it takes to put a blob on disk

SaveCalls == 1..MaxSaves
SaveLists == {<<>>, <<FileRecord(1)>>, <<FileRecord(1), FileRecord(2)>>}

VaultPath == <<"key_storage.bin", 0>>
TempPathShared(c) == <<"key_storage.bin.tmp", 0>>
TempPathInPlace(c) == VaultPath

\* the temporary file of save call c, in the directory of the vault
TempPath(c) == <<"key_storage.bin.tmp", c>>

Paths == {VaultPath} \cup {TempPath(c) : c \in SaveCalls}

Absent == [exists |-> FALSE, data |-> <<>>]
Hole == [keys |-> <<>>, part |-> 0]
Chunk(keys, k) == [keys |-> keys, part |-> k]

\* VaultCodec.encrypt, as the chunks of the VaultFile
Blob(keys) == [k \in 1..BlobChunks |-> Chunk(keys, k)]

\* VaultCodec.decrypt: the tag verifies only on a blob that is whole and of
\* one encryption.
Decrypt(data) ==
  IF \E keys \in SaveLists : data = Blob(keys)
  THEN [ok |-> TRUE, keys |-> (CHOOSE keys \in SaveLists : data = Blob(keys))]
  ELSE [ok |-> FALSE, keys |-> <<>>]

\* write(2) at offset k of a file
WriteAt(data, k, chunk) ==
  [i \in 1..(IF k > Len(data) THEN k ELSE Len(data)) |->
     IF i = k THEN chunk ELSE IF i <= Len(data) THEN data[i] ELSE Hole]

NoCall == [pc |-> "idle", keys |-> <<>>, written |-> 0]

StoreIdle ==
  [files |-> [p \in Paths |-> Absent],
   call |-> [c \in SaveCalls |-> NoCall],
   committed |-> <<>>, lastRename |-> 0, crashed |-> FALSE,
   overlapped |-> FALSE]

StoreInit ==
  \E keys \in SaveLists : \E fresh \in BOOLEAN :
    store = IF fresh THEN StoreIdle
            ELSE [StoreIdle EXCEPT
                    !.files[VaultPath] = [exists |-> TRUE, data |-> Blob(keys)],
                    !.committed = keys]

InFlight(c) == store.call[c].pc \in {"open", "write", "rename"}

SaveCall(c) ==
  /\ ~store.crashed /\ store.call[c].pc = "idle"
  /\ \E keys \in SaveLists :
       store' = [store EXCEPT
                   !.call[c] = [pc |-> "open", keys |-> keys, written |-> 0],
                   !.overlapped = @ \/ \E d \in SaveCalls : InFlight(d)]
  /\ UNCHANGED outsideStore

\* create or truncate the temporary file
SaveOpenTemp(c) ==
  /\ ~store.crashed /\ store.call[c].pc = "open"
  /\ store' = [store EXCEPT !.call[c].pc = "write",
                            !.files[TempPath(c)] = [exists |-> TRUE, data |-> <<>>]]
  /\ UNCHANGED outsideStore

SaveWrite(c) ==
  /\ ~store.crashed /\ store.call[c].pc = "write"
  /\ LET k == store.call[c].written + 1
         file == store.files[TempPath(c)]
     IN IF ~file.exists
        THEN store' = [store EXCEPT !.call[c].pc = "failed"]
        ELSE store' = [store EXCEPT
                         !.files[TempPath(c)].data =
                            WriteAt(file.data, k, Chunk(store.call[c].keys, k)),
                         !.call[c].written = k,
                         !.call[c].pc = IF k = BlobChunks THEN "rename" ELSE "write"]
  /\ UNCHANGED outsideStore

\* rename(temporary, vault)
SaveRename(c) ==
  /\ ~store.crashed /\ store.call[c].pc = "rename"
  /\ LET file == store.files[TempPath(c)]
     IN IF ~file.exists
        THEN store' = [store EXCEPT !.call[c].pc = "failed"]
        ELSE store' = [store EXCEPT
                         !.files[TempPath(c)] = Absent,
                         !.files[VaultPath] = file,
                         !.call[c].pc = "done",
                         !.committed = store.call[c].keys,
                         !.lastRename = c]
  /\ UNCHANGED outsideStore

\* an I/O error (permissions, space) ends the call; the vault is untouched
SaveFail(c) ==
  /\ ~store.crashed /\ InFlight(c)
  /\ store' = [store EXCEPT !.call[c].pc = "failed"]
  /\ UNCHANGED outsideStore

\* the process dies: every call in flight stops where it is
Crash ==
  /\ ~store.crashed
  /\ \E c \in SaveCalls : InFlight(c)
  /\ store' = [store EXCEPT
                 !.crashed = TRUE,
                 !.call = [c \in SaveCalls |->
                             IF InFlight(c) THEN [store.call[c] EXCEPT !.pc = "crashed"]
                             ELSE store.call[c]]]
  /\ UNCHANGED outsideStore

(***************************************************************************)
(* PassphraseManager.get_or_create_passphrase behind                       *)
(* get_or_create_passphrase_cmd: return the record if it exists, otherwise *)
(* generate a passphrase, persist it and return it.  The existence check,  *)
(* the read and the write are file operations of their own.  Passphrases   *)
(* are numbered in the order they are generated; 0 is no record.           *)
(***************************************************************************)
MaxPassCalls == 2    \* calls by one caller in one run

\* App.autoLoadStoredKeys and KeyManagementTab.initializeKeyStorage
PassCallers == {"app", "keys"}

PmIdle ==
  [file |-> 0, generated |-> 0, writes |-> 0, returned |-> {},
   call |-> [c \in PassCallers |-> [pc |-> "idle", calls |-> 0, result |-> 0]]]

PmInit ==
  \E existing \in BOOLEAN :
    pm = IF existing THEN [PmIdle EXCEPT !.file = 1, !.generated = 1]
         ELSE PmIdle

\* invoke('get_or_create_passphrase_cmd')
PassInvoke(c) ==
  /\ pm.call[c].pc \in {"idle", "returned", "failed"}
  /\ pm.call[c].calls < MaxPassCalls
  /\ pm' = [pm EXCEPT !.call[c] = [pc |-> "check", calls |-> @.calls + 1,
                                   result |-> 0]]
  /\ UNCHANGED outsidePm

PassCheck(c) ==
  /\ pm.call[c].pc = "check"
  /\ pm' = [pm EXCEPT !.call[c].pc = IF pm.file # 0 THEN "read" ELSE "create"]
  /\ UNCHANGED outsidePm

PassRead(c) ==
  /\ pm.call[c].pc = "read"
  /\ pm' = [pm EXCEPT !.call[c].pc = "returned",
                      !.call[c].result = pm.file,
                      !.returned = @ \cup {pm.file}]
  /\ UNCHANGED outsidePm

PassCreate(c) ==
  /\ pm.call[c].pc = "create"
  /\ LET passphrase == pm.generated + 1
     IN pm' = [pm EXCEPT !.generated = passphrase,
                         !.file = passphrase,
                         !.writes = @ + 1,
                         !.call[c].pc = "returned",
                         !.call[c].result = passphrase,
                         !.returned = @ \cup {passphrase}]
  /\ UNCHANGED outsidePm

\* an I/O error: the location is unreadable or unwritable
PassFail(c) ==
  /\ pm.call[c].pc \in {"check", "read", "create"}
  /\ pm' = [pm EXCEPT !.call[c].pc = "failed"]
  /\ UNCHANGED outsidePm

(***************************************************************************)
(* KeyManagementTab.tsx: the export and the import dialog.  A passphrase is *)
(* the sequence of its characters; the texts of the passphrase fields in   *)
(* the render in which a confirm button is clicked are inputs of the       *)
(* confirm handler, kept in captured and confirmation.                     *)
(* One handler is in flight at a time (the confirm                         *)
(* buttons are disabled while isExporting / isImporting); the checks on    *)
(* the passphrase are those of the handlers themselves.  exportCalls,      *)
(* importCalls and refused are history: the invocations of                 *)
(* export_keys_cmd and import_keys_cmd, and the dialogs that refused a     *)
(* passphrase as too short.                                                *)
(***************************************************************************)
MaxPassphraseLen == 4    \* characters typed into a passphrase field
MaxDialogOps == 3        \* confirm clicks in one run

PassphraseChars == {"a", "b"}
\* the empty field, and texts of 3 characters and more that differ in their
\* last character
TypedPassphrases ==
  {<<>>} \cup {[i \in 1..n |-> IF i = n THEN c ELSE "a"] :
                 n \in (MinPassphraseLength - 1)..MaxPassphraseLen,
                 c \in PassphraseChars}

DialogKeys == {<<>>, <<FileRecord(1)>>}

DlgIdle ==
  [pc |-> "idle", storedKeys |-> <<>>, vault |-> NoVault,
   autoPassphrase |-> NoPass,
   showExportDialog |-> FALSE, showImportDialog |-> FALSE,
   captured |-> <<>>, confirmation |-> <<>>, importFilePath |-> "",
   isExporting |-> FALSE, isImporting |-> FALSE, toast |-> "",
   merged |-> <<>>,
   exportCalls |-> 0, importCalls |-> 0,
   refused |-> {}, ops |-> 0]

DlgInit ==
  \E keys \in DialogKeys : \E pass \in {NoPass, AutoPass} :
    dlg = [DlgIdle EXCEPT !.storedKeys = keys, !.autoPassphrase = pass,
                          !.vault = IF keys = <<>> THEN NoVault ELSE Vault(keys)]

NoDialog == ~dlg.showExportDialog /\ ~dlg.showImportDialog

\* if (exportPassphrase.length < 4) / if (importPassphrase.length < 4)
PassphraseNeverTooShort(passphrase) == FALSE

PassphraseTooShort(passphrase) == Len(passphrase) < MinPassphraseLength

handleExportClick ==
  /\ NoDialog
  /\ dlg' = IF Len(dlg.storedKeys) = 0
            THEN [dlg EXCEPT !.toast = "No keys to export"]
            ELSE [dlg EXCEPT !.showExportDialog = TRUE]
  /\ UNCHANGED outsideDlg

ExportCancel ==
  /\ dlg.showExportDialog
  /\ dlg' = [dlg EXCEPT !.showExportDialog = FALSE]
  /\ UNCHANGED outsideDlg

handleExportConfirm ==
  /\ dlg.showExportDialog /\ ~dlg.isExporting /\ dlg.pc = "idle"
  /\ dlg.ops < MaxDialogOps
  /\ \E exportPassphrase \in TypedPassphrases :
     \E exportPassphraseConfirm \in TypedPassphrases :
       LET d == [dlg EXCEPT !.captured = exportPassphrase,
                            !.confirmation = exportPassphraseConfirm,
                            !.ops = @ + 1]
       IN dlg' = IF PassphraseTooShort(exportPassphrase)
                 THEN [d EXCEPT !.toast = "Passphrase too short",
                                !.refused = @ \cup {"export"}]
                 ELSE IF exportPassphrase # exportPassphraseConfirm
                      THEN [d EXCEPT !.toast = "Passphrases do not match"]
                      ELSE [d EXCEPT !.isExporting = TRUE,
                                     !.pc = "savePicker"]
  /\ UNCHANGED outsideDlg

\* const filePath = await save({...}); if (filePath) await exportKeys(...)
ExportPickerDone ==
  /\ dlg.pc = "savePicker"
  /\ \E filePath \in {"export.bin", "null", "throws"} :
       dlg' = CASE filePath = "null" ->
                     [dlg EXCEPT !.pc = "idle", !.isExporting = FALSE]
                [] filePath = "throws" ->
                     [dlg EXCEPT !.pc = "idle", !.isExporting = FALSE,
                                 !.toast = "Export failed"]
                [] OTHER ->
                     [dlg EXCEPT !.pc = "exportCmd",
                                 !.exportCalls = @ + 1]
  /\ UNCHANGED outsideDlg

ExportCmdDone ==
  /\ dlg.pc = "exportCmd"
  /\ \E ok \in BOOLEAN :
       dlg' = IF ok
              THEN [dlg EXCEPT !.pc = "idle", !.isExporting = FALSE,
                               !.toast = "Keys exported!",
                               !.showExportDialog = FALSE]
              ELSE [dlg EXCEPT !.pc = "idle", !.isExporting = FALSE,
                               !.toast = "Export failed"]
  /\ UNCHANGED outsideDlg

\* handleImportClick: the file picker, then the dialog
DlgImportClick ==
  /\ NoDialog /\ dlg.pc = "idle"
  /\ \E filePath \in {"import.bin", "null", "throws"} :
       dlg' = CASE filePath = "null" -> dlg
                [] filePath = "throws" ->
                     [dlg EXCEPT !.toast = "Failed to select file"]
                [] OTHER ->
                     [dlg EXCEPT !.importFilePath = filePath,
                                 !.showImportDialog = TRUE]
  /\ UNCHANGED outsideDlg

DlgImportCancel ==
  /\ dlg.showImportDialog
  /\ dlg' = [dlg EXCEPT !.showImportDialog = FALSE]
  /\ UNCHANGED outsideDlg

DlgImportConfirm ==
  /\ dlg.showImportDialog /\ ~dlg.isImporting /\ dlg.pc = "idle"
  /\ dlg.ops < MaxDialogOps
  /\ \E importPassphrase \in TypedPassphrases :
       LET d == [dlg EXCEPT !.captured = importPassphrase,
                            !.confirmation = <<>>, !.ops = @ + 1]
       IN dlg' = IF dlg.importFilePath = ""
                 THEN [d EXCEPT !.toast = "No file selected"]
                 ELSE IF PassphraseTooShort(importPassphrase)
                      THEN [d EXCEPT
                              !.toast = "Enter the passphrase used during export",
                              !.refused = @ \cup {"import"}]
                      ELSE [d EXCEPT !.isImporting = TRUE, !.pc = "importCmd",
                                     !.importCalls = @ + 1,
                                     !.merged = dlg.storedKeys]
  /\ UNCHANGED outsideDlg

\* merged holds the storedKeys of the render in which Import was clicked,
\* then the merged list.
DlgImportCmdDone ==
  /\ dlg.pc = "importCmd"
  /\ \E ok \in BOOLEAN : \E importedKeys \in {<<FileRecord(1), FileRecord(2)>>} :
       dlg' = IF ~ok
              THEN [dlg EXCEPT !.pc = "idle", !.isImporting = FALSE,
                               !.toast = "Import failed"]
              ELSE LET mergedKeys == MergedKeys(dlg.merged, importedKeys)
                   IN IF dlg.autoPassphrase # NoPass
                      THEN [dlg EXCEPT !.pc = "saveCmd",
                                       !.storedKeys = mergedKeys,
                                       !.merged = mergedKeys]
                      ELSE [dlg EXCEPT !.pc = "idle", !.isImporting = FALSE,
                                       !.storedKeys = mergedKeys,
                                       !.merged = mergedKeys,
                                       !.toast = "Keys imported!",
                                       !.showImportDialog = FALSE]
  /\ UNCHANGED outsideDlg

DlgImportSaveDone ==
  /\ dlg.pc = "saveCmd"
  /\ \E ok \in BOOLEAN :
       dlg' = IF ok
              THEN [dlg EXCEPT !.pc = "idle", !.isImporting = FALSE,
                               !.vault = Vault(dlg.merged),
                               !.toast = "Keys imported!",
                               !.showImportDialog = FALSE]
              ELSE [dlg EXCEPT !.pc = "idle", !.isImporting = FALSE,
                               !.toast = "Import failed"]
  /\ UNCHANGED outsideDlg

(***************************************************************************)
(* useKeyStore: each function awaits one command of the back end and hands *)
(* its caller what the command returned, or what its catch block makes of  *)
(* a rejection.  What an awaited call gives is a record: ok tells a        *)
(* fulfilled promise from a rejected one, value is the value (a record     *)
(* list, <<TRUE>> or <<FALSE>> for a boolean, <<>> for void), error the    *)
(* text of the rejection.                                                  *)
(***************************************************************************)
MaxHookCalls == 2    \* calls of useKeyStore functions in one run

Ok(value) == [ok |-> TRUE, value |-> value, error |-> <<>>]
Err(error) == [ok |-> FALSE, value |-> <<>>, error |-> error]

\* catch (error) { console.error(...); return false; }
keyStorageExists(outcome) ==
  IF outcome.ok THEN outcome ELSE Ok(<<FALSE>>)

\* catch (error) { throw new Error(`Failed to load key storage: ${error}`) }
loadKeyStorage(outcome) ==
  IF outcome.ok THEN outcome
  ELSE Err(<<"Failed to load key storage: ">> \o outcome.error)

saveKeyStorage(outcome) ==
  IF outcome.ok THEN outcome
  ELSE Err(<<"Failed to save key storage: ">> \o outcome.error)

exportKeys(outcome) ==
  IF outcome.ok THEN outcome
  ELSE Err(<<"Failed to export keys: ">> \o outcome.error)

importKeys(outcome) ==
  IF outcome.ok THEN outcome
  ELSE Err(<<"Failed to import keys: ">> \o outcome.error)

HookFunctions ==
  {"keyStorageExists", "loadKeyStorage", "saveKeyStorage", "exportKeys",
   "importKeys"}

\* rejections of a command: the file cannot be read or written, the
\* passphrase does not open it
CommandErrors == {<<"permission denied">>, <<"decryption failed">>}

\* what the command behind a function can fulfil with
CommandValues(function) ==
  CASE function = "keyStorageExists" -> {<<TRUE>>, <<FALSE>>}
    [] function \in {"loadKeyStorage", "importKeys"} ->
         {<<>>, <<FileRecord(1)>>}
    [] OTHER -> {<<>>}

CommandOutcomes(function) ==
  {Ok(v) : v \in CommandValues(function)} \cup {Err(e) : e \in CommandErrors}

Observed(function, outcome) ==
  CASE function = "keyStorageExists" -> keyStorageExists(outcome)
    [] function = "loadKeyStorage" -> loadKeyStorage(outcome)
    [] function = "saveKeyStorage" -> saveKeyStorage(outcome)
    [] function = "exportKeys" -> exportKeys(outcome)
    [] OTHER -> importKeys(outcome)

\* log is history: for every call that has returned, the function, what
\* the command did and what the caller observed.
HookIdle == [pc |-> "idle", function |-> "", calls |-> 0, log |-> <<>>]

HookCall ==
  /\ hook.pc = "idle"
  /\ hook.calls < MaxHookCalls
  /\ \E function \in HookFunctions :
       hook' = [hook EXCEPT !.pc = "invoke", !.function = function,
                            !.calls = @ + 1]
  /\ UNCHANGED outsideHook

HookCommandDone ==
  /\ hook.pc = "invoke"
  /\ \E outcome \in CommandOutcomes(hook.function) :
       hook' = [hook EXCEPT !.pc = "idle",
                  !.log = Append(@, [function |-> hook.function,
                                     command |-> outcome,
                                     observed |-> Observed(hook.function,
                                                           outcome)])]
  /\ UNCHANGED outsideHook

(***************************************************************************)
(* VaultCodec and VaultStore.load / save behind load_key_storage_cmd and   *)
(* save_key_storage_cmd, under loadKeyStorage and saveKeyStorage of        *)
(* useKeyStore.  Cryptography is symbolic: a derived key is the pair of *)
(* passphrase and salt, a ciphertext carries the plaintext under a key and *)
(* a nonce, and its tag verifies only under that key and nonce and over    *)
(* the bytes it was computed on.  derivations counts the runs of the key   *)
(* derivation function; last is the last call and what its caller got.     *)
(***************************************************************************)
MaxCodecOps == 4     \* saves, loads and changes made to files in one run
MaxCodecLen == 2     \* length of a saved record list

KnownVersion == 1
FutureVersion == KnownVersion + 1

CodecPassphrases == {"passphraseA", "passphraseB"}
CodecPaths == {"key_storage.bin", "elsewhere.bin"}
CodecRecords ==
  {StoredKey(1, "age1a", "AGE-SECRET-KEY-A"), StoredKey(2, "age1b", "")}
\* record lists as a collection holds them, no record twice
CodecLists ==
  {l \in SeqsUpTo(CodecRecords, MaxCodecLen) :
     \A i, j \in 1..Len(l) : i # j => l[i] # l[j]}

\* error texts, as sequences of their parts
NotFound == <<"not found">>
DecryptionFailed == <<"decryption failed">>
UnsupportedVersion == <<"unsupported version">>


\* the canonical byte encoding of a record list, one token per field
SerializeRecordPublicOnly(r) == <<ToString(r.id), r.publicKey, "">>

SerializeRecord(r) == <<ToString(r.id), r.publicKey, r.privateKey>>

RECURSIVE Serialize(_)
Serialize(records) ==
  IF records = <<>> THEN <<>>
  ELSE SerializeRecord(Head(records)) \o Serialize(Tail(records))

ParseId(token) == CHOOSE i \in 0..9 : ToString(i) = token

RECURSIVE Deserialize(_)
Deserialize(bytes) ==
  IF Len(bytes) < 3 THEN <<>>
  ELSE <<StoredKey(ParseId(bytes[1]), bytes[2], bytes[3])>>
         \o Deserialize(SubSeq(bytes, 4, Len(bytes)))

\* the password-based key derivation function
Derive(passphrase, salt) == [passphrase |-> passphrase, salt |-> salt]

\* the authentication tag of the AEAD over the bytes, under key and nonce
Tag(key, nonce, bytes) == [key |-> key, nonce |-> nonce, bytes |-> bytes]

Seal(key, nonce, bytes) ==
  [bytes |-> bytes, tag |-> Tag(key, nonce, bytes)]

TagVerifies(key, nonce, ciphertext) ==
  ciphertext.tag = Tag(key, nonce, ciphertext.bytes)

\* encrypt(passphrase, records) with the salt and the nonce drawn for it
VaultCodecEncrypt(passphrase, records, salt, nonce) ==
  [version |-> KnownVersion, salt |-> salt, nonce |-> nonce,
   ciphertext |-> Seal(Derive(passphrase, salt), nonce, Serialize(records))]

\* a failed tag verification gives one error, whatever made it fail
OpenFailureByCause(key, file) ==
  IF file.ciphertext.tag.key # key THEN Err(<<"wrong passphrase">>)
  ELSE Err(<<"corrupt data">>)

OpenFailure(key, file) == Err(DecryptionFailed)

\* the decoder: the version, then the derivation, then the tag
DecodeDerivingFirst(passphrase, file) ==
  [derived |-> TRUE,
   result |-> IF file.version # KnownVersion THEN Err(UnsupportedVersion)
              ELSE IF TagVerifies(Derive(passphrase, file.salt), file.nonce,
                                  file.ciphertext)
                   THEN Ok(Deserialize(file.ciphertext.bytes))
                   ELSE OpenFailure(Derive(passphrase, file.salt), file)]

Decode(passphrase, file) ==
  IF file.version # KnownVersion
  THEN [derived |-> FALSE, result |-> Err(UnsupportedVersion)]
  ELSE LET key == Derive(passphrase, file.salt)
       IN [derived |-> TRUE,
           result |-> IF TagVerifies(key, file.nonce, file.ciphertext)
                      THEN Ok(Deserialize(file.ciphertext.bytes))
                      ELSE OpenFailure(key, file)]

\* decrypt(passphrase, vault)
VaultCodecDecrypt(passphrase, file) == Decode(passphrase, file).result

NoFile == [version |-> 0]
FileExists(files, path) == files[path] # NoFile

\* load(path, passphrase): a file that is not there is not decrypted
LoadWithoutExistenceCheck(files, path, passphrase) ==
  IF FileExists(files, path)
  THEN Decode(passphrase, files[path])
  ELSE [derived |-> TRUE, result |-> Err(DecryptionFailed)]

VaultStoreLoad(files, path, passphrase) ==
  IF ~FileExists(files, path)
  THEN [derived |-> FALSE, result |-> Err(NotFound)]
  ELSE Decode(passphrase, files[path])

NoCodecCall ==
  [kind |-> "none", path |-> "", passphrase |-> "", derived |-> FALSE,
   result |-> Ok(<<>>)]

\* saved is history: what the last save of a path was given, and whether
\* the bytes it wrote are still the bytes of the file.
NeverSaved == [passphrase |-> "", keys |-> <<>>, intact |-> FALSE]

CodecIdle ==
  [files |-> [path \in CodecPaths |-> NoFile],
   saved |-> [path \in CodecPaths |-> NeverSaved], fresh |-> 1,
   derivations |-> 0, last |-> NoCodecCall, ops |-> 0]

\* saveKeyStorage(passphrase, keys, filePath) that completes
CodecSave(path, passphrase, keys) ==
  /\ codec.ops < MaxCodecOps
  /\ codec' = [codec EXCEPT
       !.files[path] = VaultCodecEncrypt(passphrase, keys, codec.fresh,
                                         codec.fresh),
       !.saved[path] = [passphrase |-> passphrase, keys |-> keys,
                        intact |-> TRUE],
       !.fresh = @ + 1,
       !.derivations = @ + 1,
       !.last = [kind |-> "save", path |-> path, passphrase |-> passphrase,
                 derived |-> TRUE, result |-> Ok(<<>>)],
       !.ops = @ + 1]
  /\ UNCHANGED outsideCodec

\* loadKeyStorage(passphrase, filePath)
CodecLoad(path, passphrase) ==
  /\ codec.ops < MaxCodecOps
  /\ LET r == VaultStoreLoad(codec.files, path, passphrase)
     IN codec' = [codec EXCEPT
          !.derivations = IF r.derived THEN @ + 1 ELSE @,
          !.last = [kind |-> "load", path |-> path,
                    passphrase |-> passphrase, derived |-> r.derived,
                    result |-> loadKeyStorage(VaultStoreLoad(codec.files, path, passphrase).result)],
          !.ops = @ + 1]
  /\ UNCHANGED outsideCodec

\* A byte of the ciphertext or of the tag of a file is changed on disk.
CodecCorrupt(path) ==
  /\ codec.ops < MaxCodecOps
  /\ FileExists(codec.files, path)
  /\ \/ codec' = [codec EXCEPT
          !.files[path].ciphertext.bytes = <<"flipped">> \o @,
          !.saved[path].intact = FALSE,
          !.last = NoCodecCall, !.ops = @ + 1]
     \/ codec' = [codec EXCEPT
          !.files[path].ciphertext.tag.nonce = 0,
          !.saved[path].intact = FALSE,
          !.last = NoCodecCall, !.ops = @ + 1]
  /\ UNCHANGED outsideCodec

\* The file is replaced by one that a later release of the format wrote.
CodecUpgrade(path) ==
  /\ codec.ops < MaxCodecOps
  /\ FileExists(codec.files, path)
  /\ codec.files[path].version = KnownVersion
  /\ codec' = [codec EXCEPT !.files[path].version = FutureVersion,
                            !.last = NoCodecCall, !.ops = @ + 1]
  /\ UNCHANGED outsideCodec

(***************************************************************************)
(* EncryptionTab.tsx and DecryptionTab.tsx over the encryption and the     *)
(* decryption state of EncryptionStateContext, with the handlers of the    *)
(* key tab that write to that state.  App.tsx renders the tab that is      *)
(* active and no other, so isEncrypting, isDecrypting and toast are those  *)
(* of the instance on display.  A text is the sequence of its parts, so    *)
(* that trim and startsWith work on it; a path that is null or '' is <<>>  *)
(* (the handlers test both with !path).  inFlight counts the invocations   *)
(* of encrypt_file_cmd and decrypt_file_cmd that have not returned;        *)
(* refused and last are history: the handlers that refused to invoke, and  *)
(* the last use of a stored key as identity.                               *)
(***************************************************************************)
MaxFileOps == 2      \* clicks on Encrypt, Decrypt and on a stored key

Blank == " "
AgeKeyPrefix == "AGE-SECRET-KEY-"

\* stored records as the tabs load them: one with a private key, one without
TabKeys ==
  {[id |-> 1, publicKey |-> <<"age1a">>,
    privateKey |-> <<AgeKeyPrefix, "A">>],
   [id |-> 2, publicKey |-> <<"age1b">>, privateKey |-> <<>>]}

InputPath == <<"report.txt">>
AutoOutputPath == <<"report.txt", ".age">>

\* the recipient field: blank, or the public key of the first record
TypedRecipients == {<<Blank>>, <<Blank, "age1a">>}
TypedIdentities ==
  {<<Blank, Blank>>, <<Blank, AgeKeyPrefix, "A", Blank>>, <<"garbage">>}

\* String.prototype.trim
RECURSIVE TrimStart(_)
TrimStart(text) ==
  IF text # <<>> /\ Head(text) = Blank THEN TrimStart(Tail(text)) ELSE text

RECURSIVE TrimEnd(_)
TrimEnd(text) ==
  IF text # <<>> /\ text[Len(text)] = Blank
  THEN TrimEnd(SubSeq(text, 1, Len(text) - 1))
  ELSE text

Trim(text) == TrimEnd(TrimStart(text))

StartsWith(text, prefix) == text # <<>> /\ Head(text) = prefix

\* Array.prototype.includes
IncludesRecipient(recipients, recipient) ==
  \E i \in 1..Len(recipients) : recipients[i] = recipient

NoFileToast == [type |-> "", title |-> ""]
FileToast(type, title) == [type |-> type, title |-> title]

EncryptionKeepingArmor ==
  [selectedFile |-> <<>>, outputFile |-> <<>>, recipients |-> <<>>,
   useArmor |-> TRUE]

\* the initial encryption state, which clearEncryptionState sets again
NoEncryption ==
  [selectedFile |-> <<>>, outputFile |-> <<>>, recipients |-> <<>>,
   useArmor |-> FALSE]
NoDecryption == [selectedFile |-> <<>>, outputFile |-> <<>>, identity |-> <<>>]

FileTabs == {"keys", "encrypt", "decrypt"}

FileIdle ==
  [encryption |-> NoEncryption, decryption |-> NoDecryption,
   storedKeys |-> TabKeys, activeTab |-> "keys",
   isEncrypting |-> FALSE, isDecrypting |-> FALSE, toast |-> NoFileToast,
   inFlight |-> [encrypt |-> 0, decrypt |-> 0],
   refused |-> {}, last |-> [handler |-> "", id |-> 0], ops |-> 0]

\* setActiveTab(tab.id): the tab shown is unmounted and its isEncrypting,
\* isDecrypting and toasts go with it; the tab mounted starts with fresh
\* ones.  Mounting the key tab runs initializeKeyStorage, taken here to have
\* loaded the vault's records.
FileSwitchTab ==
  /\ \E tab \in FileTabs \ {fileop.activeTab} :
       fileop' = [fileop EXCEPT
                    !.activeTab = tab,
                    !.isEncrypting = FALSE, !.isDecrypting = FALSE,
                    !.toast = NoFileToast,
                    !.storedKeys = IF tab = "keys" THEN TabKeys ELSE @]
  /\ UNCHANGED outsideFile

\* handleBrowseFile with a file chosen, and the drop of a file on the window
EncBrowseFile ==
  /\ fileop.activeTab = "encrypt"
  /\ fileop' = [fileop EXCEPT !.encryption.selectedFile = InputPath,
                              !.encryption.outputFile = AutoOutputPath,
                              !.toast = FileToast("success", "Output location auto-set")]
  /\ UNCHANGED outsideFile

\* onClick={() => setEncryptionSelectedFile(null)}
EncClearFile ==
  /\ fileop.activeTab = "encrypt"
  /\ fileop.encryption.selectedFile # <<>>
  /\ fileop' = [fileop EXCEPT !.encryption.selectedFile = <<>>]
  /\ UNCHANGED outsideFile

\* onChange={(e) => setEncryptionUseArmor(e.target.checked)}
setEncryptionUseArmor ==
  /\ fileop.activeTab = "encrypt"
  /\ fileop' = [fileop EXCEPT !.encryption.useArmor = ~@]
  /\ UNCHANGED outsideFile

handleAddRecipient ==
  /\ fileop.activeTab = "encrypt"
  /\ \E recipientInput \in TypedRecipients :
       LET trimmedInput == Trim(recipientInput)
       IN fileop' =
            IF trimmedInput = <<>>
            THEN [fileop EXCEPT !.toast = FileToast("warning", "Empty recipient")]
            ELSE IF IncludesRecipient(fileop.encryption.recipients, trimmedInput)
                 THEN [fileop EXCEPT !.toast = FileToast("info", "Recipient exists")]
                 ELSE [fileop EXCEPT
                         !.encryption.recipients = Append(@, trimmedInput),
                         !.toast = FileToast("success", "Recipient added")]
  /\ UNCHANGED outsideFile

handleAddStoredKeyAsRecipient ==
  /\ fileop.activeTab = "encrypt"
  /\ \E storedKey \in TabKeys :
       fileop' =
         IF IncludesRecipient(fileop.encryption.recipients, storedKey.publicKey)
         THEN [fileop EXCEPT !.toast = FileToast("info", "Recipient exists")]
         ELSE [fileop EXCEPT
                 !.encryption.recipients = Append(@, storedKey.publicKey),
                 !.toast = FileToast("success", "Recipient added")]
  /\ UNCHANGED outsideFile

\* KeyManagementTab.handleUsePublicKey, on a row of the key list
handleUsePublicKey ==
  /\ fileop.activeTab = "keys"
  /\ fileop.ops < MaxFileOps
  /\ \E storedKey \in fileop.storedKeys :
       fileop' = [fileop EXCEPT
                    !.encryption.recipients = Append(@, storedKey.publicKey),
                    !.toast = FileToast("success", "Recipient added"),
                    !.ops = @ + 1]
  /\ UNCHANGED outsideFile

removeEncryptionRecipient ==
  /\ fileop.activeTab = "encrypt"
  /\ \E index \in 1..Len(fileop.encryption.recipients) :
       fileop' = [fileop EXCEPT
                    !.encryption.recipients = RemoveAt(@, index)]
  /\ UNCHANGED outsideFile

\* the validation of handleEncrypt: the title of the error toast, or ""
EncryptValidationSkippingRecipients(encryption) ==
  IF encryption.selectedFile = <<>> THEN "Missing input file"
  ELSE IF encryption.outputFile = <<>> THEN "Missing output location"
  ELSE ""

EncryptValidation(encryption) ==
  IF encryption.selectedFile = <<>> THEN "Missing input file"
  ELSE IF encryption.outputFile = <<>> THEN "Missing output location"
  ELSE IF Len(encryption.recipients) = 0 THEN "No recipients"
  ELSE ""

\* the Encrypt button is disabled={isEncrypting}
handleEncrypt ==
  /\ fileop.activeTab = "encrypt"
  /\ ~fileop.isEncrypting
  /\ fileop.ops < MaxFileOps
  /\ LET error == EncryptValidation(fileop.encryption)
     IN fileop' =
          IF error # ""
          THEN [fileop EXCEPT !.toast = FileToast("error", error),
                              !.refused = @ \cup {"encrypt"}, !.ops = @ + 1]
          ELSE [fileop EXCEPT !.isEncrypting = TRUE,
                              !.inFlight.encrypt = @ + 1,
                              !.ops = @ + 1]
  /\ UNCHANGED outsideFile

\* encrypt_file_cmd returns or rejects.  mounted tells whether the instance
\* that awaits it is the one on display: clearEncryptionState acts on the
\* context in either case, showToast and setIsEncrypting on that instance.
EncryptDone ==
  /\ \E ok, mounted \in BOOLEAN :
       /\ IF mounted THEN fileop.isEncrypting
          ELSE fileop.inFlight.encrypt > (IF fileop.isEncrypting THEN 1 ELSE 0)
       /\ LET f == [fileop EXCEPT
                      !.encryption = IF ok THEN NoEncryption ELSE @,
                      !.inFlight.encrypt = @ - 1]
          IN fileop' =
               IF mounted
               THEN [f EXCEPT
                       !.toast = IF ok THEN FileToast("success", "Encryption successful!")
                                 ELSE FileToast("error", "Encryption failed"),
                       !.isEncrypting = FALSE]
               ELSE f
  /\ UNCHANGED outsideFile

DecBrowseFile ==
  /\ fileop.activeTab = "decrypt"
  /\ fileop' = [fileop EXCEPT !.decryption.selectedFile = AutoOutputPath,
                              !.decryption.outputFile = InputPath,
                              !.toast = FileToast("success", "Output location auto-set")]
  /\ UNCHANGED outsideFile

\* onClick={() => setDecryptionSelectedFile(null)}
DecClearFile ==
  /\ fileop.activeTab = "decrypt"
  /\ fileop.decryption.selectedFile # <<>>
  /\ fileop' = [fileop EXCEPT !.decryption.selectedFile = <<>>]
  /\ UNCHANGED outsideFile

\* onChange={(e) => setDecryptionIdentity(e.target.value)}
DecTypeIdentity ==
  /\ fileop.activeTab = "decrypt"
  /\ \E identity \in TypedIdentities :
       /\ identity # fileop.decryption.identity
       /\ fileop' = [fileop EXCEPT !.decryption.identity = identity]
  /\ UNCHANGED outsideFile

\* if (storedKey.privateKey)
HasPrivateKeyAlways(storedKey) == TRUE

HasPrivateKey(storedKey) == storedKey.privateKey # <<>>

\* DecryptionTab.handleUseStoredKey, for any record
handleUseStoredKey ==
  /\ fileop.activeTab = "decrypt"
  /\ fileop.ops < MaxFileOps
  /\ \E storedKey \in TabKeys :
       LET f == [fileop EXCEPT
                   !.last = [handler |-> "handleUseStoredKey",
                             id |-> storedKey.id],
                   !.ops = @ + 1]
       IN fileop' =
            IF HasPrivateKey(storedKey)
            THEN [f EXCEPT !.decryption.identity = storedKey.privateKey,
                           !.toast = FileToast("success", "Private key loaded")]
            ELSE f
  /\ UNCHANGED outsideFile

\* KeyManagementTab.handleUsePrivateKey; its button is rendered inside
\* {key.privateKey && (...)}
handleUsePrivateKey ==
  /\ fileop.activeTab = "keys"
  /\ fileop.ops < MaxFileOps
  /\ \E storedKey \in fileop.storedKeys :
       /\ HasPrivateKey(storedKey)
       /\ fileop' = [fileop EXCEPT
            !.decryption.identity = storedKey.privateKey,
            !.toast = FileToast("success", "Private key loaded"),
            !.last = [handler |-> "handleUsePrivateKey", id |-> storedKey.id],
            !.ops = @ + 1]
  /\ UNCHANGED outsideFile

\* KeyManagementTab.handleLock
handleLock ==
  /\ fileop.activeTab = "keys"
  /\ fileop.storedKeys # {}
  /\ fileop' = [fileop EXCEPT !.storedKeys = {},
                              !.toast = FileToast("info", "Keypairs locked")]
  /\ UNCHANGED outsideFile

\* the validation of handleDecrypt: the title of the error toast, or ""
DecryptValidation(decryption) ==
  LET trimmed == Trim(decryption.identity)
      isAgeKey == StartsWith(trimmed, AgeKeyPrefix)
      isSshKey == StartsWith(trimmed, "-----BEGIN") \/ StartsWith(trimmed, "ssh-")
  IN IF decryption.selectedFile = <<>> THEN "Missing encrypted file"
     ELSE IF decryption.outputFile = <<>> THEN "Missing output location"
     ELSE IF trimmed = <<>> THEN "Missing private key"
     ELSE IF ~isAgeKey /\ ~isSshKey THEN "Invalid key format"
     ELSE ""

\* the Decrypt button is disabled={isDecrypting}
handleDecrypt ==
  /\ fileop.activeTab = "decrypt"
  /\ ~fileop.isDecrypting
  /\ fileop.ops < MaxFileOps
  /\ LET error == DecryptValidation(fileop.decryption)
     IN fileop' =
          IF error # ""
          THEN [fileop EXCEPT !.toast = FileToast("error", error),
                              !.refused = @ \cup {"decrypt"}, !.ops = @ + 1]
          ELSE [fileop EXCEPT !.isDecrypting = TRUE,
                              !.inFlight.decrypt = @ + 1,
                              !.ops = @ + 1]
  /\ UNCHANGED outsideFile

DecryptDone ==
  /\ \E ok, mounted \in BOOLEAN :
       /\ IF mounted THEN fileop.isDecrypting
          ELSE fileop.inFlight.decrypt > (IF fileop.isDecrypting THEN 1 ELSE 0)
       /\ LET f == [fileop EXCEPT
                      !.decryption = IF ok THEN NoDecryption ELSE @,
                      !.inFlight.decrypt = @ - 1]
          IN fileop' =
               IF mounted
               THEN [f EXCEPT
                       !.toast = IF ok THEN FileToast("success", "Decryption successful!")
                                 ELSE FileToast("error", "Decryption failed"),
                       !.isDecrypting = FALSE]
               ELSE f
  /\ UNCHANGED outsideFile

(***************************************************************************)
(* FileExplorer.tsx.  nav is currentPath, pathHistory and historyIndex     *)
(* (historyIndex counts from 0, as in the source).  The effect with the    *)
(* dependency [navigateTo] runs after the first render and after every     *)
(* render in which pathHistory or historyIndex changed, as navigateTo is a *)
(* useCallback over these; it is part of every action that changes them.   *)
(* inits are the runs of initializeExplorer that await                     *)
(* get_user_home_directory, each with the pathHistory and historyIndex of  *)
(* the render whose navigateTo it will call; loads counts, per path, the   *)
(* list_directory_contents invocations that have not returned.             *)
(* files.of, initNavigations, effects and ops are history.                 *)
(***************************************************************************)
MaxEffects == 3      \* runs of the initialisation effect
MaxFxOps == 2        \* double-clicks on a directory, Back and Forward clicks

HomePath == "/home/u"
DocsPath == "/home/u/docs"
FxPaths == {"/", HomePath, DocsPath}

\* list_directory_contents: a directory, if the path has one, and two files
Contents(path) ==
  (IF path = "/" THEN {[name |-> <<"u">>, path |-> HomePath, isDirectory |-> TRUE]}
   ELSE IF path = HomePath
        THEN {[name |-> <<"docs">>, path |-> DocsPath, isDirectory |-> TRUE]}
        ELSE {})
  \cup {[name |-> <<"a", ".AGE">>, path |-> path, isDirectory |-> FALSE],
        [name |-> <<"b", ".txt">>, path |-> path, isDirectory |-> FALSE]}

\* String.prototype.toLowerCase on the last part of a name
ToLowerCase(part) == IF part = ".AGE" THEN ".age" ELSE part

\* acceptedExtensions ? contents.filter(...) : contents
NoExtensions == [given |-> FALSE, exts |-> {}]
Extensions(exts) == [given |-> TRUE, exts |-> exts]

FilteredContents(acceptedExtensions, contents) ==
  IF acceptedExtensions.given
  THEN {item \in contents :
          \/ item.isDirectory
          \/ \E ext \in acceptedExtensions.exts :
               ToLowerCase(item.name[Len(item.name)]) = ToLowerCase(ext)}
  ELSE contents

NoFiles == [of |-> "", items |-> {}]

\* the state updates of navigateTo(path), from the pathHistory and the
\* historyIndex of the render that made it
NavigateTo(pathHistory, historyIndex, path) ==
  LET newHistory == Append(SubSeq(pathHistory, 1, historyIndex + 1), path)
  IN [currentPath |-> path, pathHistory |-> newHistory,
      historyIndex |-> Len(newHistory) - 1]

GoBack(nav) ==
  IF nav.historyIndex > 0
  THEN [nav EXCEPT !.historyIndex = @ - 1,
                   !.currentPath = nav.pathHistory[nav.historyIndex]]
  ELSE nav

GoForward(nav) ==
  IF nav.historyIndex < Len(nav.pathHistory) - 1
  THEN [nav EXCEPT !.historyIndex = @ + 1,
                   !.currentPath = nav.pathHistory[nav.historyIndex + 2]]
  ELSE nav

FxIdle ==
  [nav |-> [currentPath |-> "/", pathHistory |-> <<"/">>, historyIndex |-> 0],
   files |-> NoFiles, isLoading |-> FALSE, acceptedExtensions |-> NoExtensions,
   inits |-> {},
   loads |-> [path \in FxPaths |-> 0],
   initNavigations |-> 0, effects |-> 0, ops |-> 0]

\* loadDirectory(path) up to its await
loadDirectory(f, path) ==
  [f EXCEPT !.isLoading = TRUE, !.loads[path] = @ + 1]

\* useEffect(() => { initializeExplorer() }, [navigateTo]) up to the await,
\* in the render that follows a change of pathHistory or historyIndex
initializeExplorer(f) ==
  IF f.effects < MaxEffects
  THEN [f EXCEPT !.effects = @ + 1,
                 !.inits = @ \cup {[pathHistory |-> f.nav.pathHistory,
                                    historyIndex |-> f.nav.historyIndex]}]
  ELSE f

\* get_user_home_directory returns or rejects: navigateTo(homePath) or
\* navigateTo('/')
HomeDirectoryDone ==
  /\ \E init \in fx.inits : \E ok \in BOOLEAN :
       LET path == IF ok THEN HomePath ELSE "/"
       IN fx' = initializeExplorer(loadDirectory(
            [fx EXCEPT !.nav = NavigateTo(init.pathHistory, init.historyIndex, path),
                       !.inits = @ \ {init},
                       !.initNavigations = @ + 1],
            path))
  /\ UNCHANGED outsideFx

\* list_directory_contents returns or rejects
LoadDone ==
  /\ \E path \in FxPaths : \E ok \in BOOLEAN :
       /\ fx.loads[path] > 0
       /\ fx' = [fx EXCEPT
            !.loads[path] = @ - 1,
            !.isLoading = FALSE,
            !.files = [of |-> path,
                       items |-> IF ok
                                 THEN FilteredContents(fx.acceptedExtensions,
                                                       Contents(path))
                                 ELSE {}]]
  /\ UNCHANGED outsideFx

\* a double-click on a directory of the list, which is on display unless
\* isLoading
handleItemDoubleClick ==
  /\ fx.ops < MaxFxOps
  /\ ~fx.isLoading
  /\ \E item \in fx.files.items :
       /\ item.isDirectory
       /\ fx' = initializeExplorer(loadDirectory(
            [fx EXCEPT !.nav = NavigateTo(fx.nav.pathHistory,
                                          fx.nav.historyIndex, item.path),
                       !.ops = @ + 1],
            item.path))
  /\ UNCHANGED outsideFx

\* the Back button is disabled={historyIndex <= 0}
goBack ==
  /\ fx.ops < MaxFxOps
  /\ fx.nav.historyIndex > 0
  /\ fx' = initializeExplorer(loadDirectory(
       [fx EXCEPT !.nav = GoBack(@), !.ops = @ + 1],
       GoBack(fx.nav).currentPath))
  /\ UNCHANGED outsideFx

\* the Forward button is disabled={historyIndex >= pathHistory.length - 1}
goForward ==
  /\ fx.ops < MaxFxOps
  /\ fx.nav.historyIndex < Len(fx.nav.pathHistory) - 1
  /\ fx' = initializeExplorer(loadDirectory(
       [fx EXCEPT !.nav = GoForward(@), !.ops = @ + 1],
       GoForward(fx.nav).currentPath))
  /\ UNCHANGED outsideFx

(***************************************************************************)
(* Specifications                                                          *)
(***************************************************************************)
KmIdle ==
  /\ vault = NoVault
  /\ storedKeys = <<>>
  /\ generatedKey = NoKey
  /\ activeTab = "keys"
  /\ inst = 1
  /\ autoPassphrase = NoPass
  /\ isLoadingKeys = TRUE
  /\ isUnlocked = TRUE
  /\ isGenerating = FALSE
  /\ showImportDialog = FALSE
  /\ isImporting = FALSE
  /\ toast = NoToast
  /\ tasks = {}
  /\ nextId = MaxImportId + 1
  /\ ops = 0
  /\ deleted = {}
  /\ durable = {}

Init ==
  KmInit /\ gen = GenIdle /\ merge = MergeIdle /\ store = StoreIdle /\ pm = PmIdle
  /\ dlg = DlgIdle
  /\ codec = CodecIdle
  /\ hook = HookIdle
  /\ fileop = FileIdle
  /\ fx = FxIdle

Next == KmNext

Spec == Init /\ [][Next]_vars

InitGen ==
  KmIdle /\ gen = GenIdle /\ merge = MergeIdle /\ store = StoreIdle /\ pm = PmIdle
  /\ dlg = DlgIdle
  /\ codec = CodecIdle
  /\ hook = HookIdle
  /\ fileop = FileIdle
  /\ fx = FxIdle

GenNext ==
  \/ GenerateKeys \/ Invoke1Done \/ ConfirmDone \/ PlatformDone
  \/ ExecuteDone \/ MsgSuccessDone \/ DelayDone \/ Invoke2Done
  \/ MsgFailedDone \/ MsgErrorDone

SpecGen == InitGen /\ [][GenNext]_vars

MergeNext == MergeImported

InitMerge ==
  KmIdle /\ gen = GenIdle /\ MergeInit /\ store = StoreIdle /\ pm = PmIdle
  /\ dlg = DlgIdle
  /\ codec = CodecIdle
  /\ hook = HookIdle
  /\ fileop = FileIdle
  /\ fx = FxIdle

SpecMerge == InitMerge /\ [][MergeNext]_vars

VaultNext ==
  \/ \E c \in SaveCalls : SaveCall(c)
  \/ \E c \in SaveCalls : SaveOpenTemp(c)
  \/ \E c \in SaveCalls : SaveWrite(c)
  \/ \E c \in SaveCalls : SaveRename(c)
  \/ \E c \in SaveCalls : SaveFail(c)
  \/ Crash

InitVault ==
  KmIdle /\ gen = GenIdle /\ merge = MergeIdle /\ StoreInit /\ pm = PmIdle
  /\ dlg = DlgIdle
  /\ codec = CodecIdle
  /\ hook = HookIdle
  /\ fileop = FileIdle
  /\ fx = FxIdle

SpecVault == InitVault /\ [][VaultNext]_vars

PassNext ==
  \/ \E c \in PassCallers : PassInvoke(c)
  \/ \E c \in PassCallers : PassCheck(c)
  \/ \E c \in PassCallers : PassRead(c)
  \/ \E c \in PassCallers : PassCreate(c)
  \/ \E c \in PassCallers : PassFail(c)

InitPass ==
  KmIdle /\ gen = GenIdle /\ merge = MergeIdle /\ store = StoreIdle /\ PmInit
  /\ dlg = DlgIdle
  /\ codec = CodecIdle
  /\ hook = HookIdle
  /\ fileop = FileIdle
  /\ fx = FxIdle

SpecPass == InitPass /\ [][PassNext]_vars

DialogNext ==
  \/ handleExportClick \/ ExportCancel
  \/ handleExportConfirm \/ ExportPickerDone \/ ExportCmdDone
  \/ DlgImportClick \/ DlgImportCancel
  \/ DlgImportConfirm \/ DlgImportCmdDone \/ DlgImportSaveDone

InitDialog ==
  KmIdle /\ gen = GenIdle /\ merge = MergeIdle /\ store = StoreIdle /\ pm = PmIdle
  /\ DlgInit
  /\ codec = CodecIdle
  /\ hook = HookIdle
  /\ fileop = FileIdle
  /\ fx = FxIdle

SpecDialog == InitDialog /\ [][DialogNext]_vars

CodecNext ==
  \/ \E path \in CodecPaths : \E passphrase \in CodecPassphrases :
       \E keys \in CodecLists : CodecSave(path, passphrase, keys)
  \/ \E path \in CodecPaths : \E passphrase \in CodecPassphrases :
       CodecLoad(path, passphrase)
  \/ \E path \in CodecPaths : CodecCorrupt(path)
  \/ \E path \in CodecPaths : CodecUpgrade(path)

InitCodec ==
  KmIdle /\ gen = GenIdle /\ merge = MergeIdle /\ store = StoreIdle /\ pm = PmIdle
  /\ dlg = DlgIdle
  /\ codec = CodecIdle
  /\ hook = HookIdle
  /\ fileop = FileIdle
  /\ fx = FxIdle

SpecCodec == InitCodec /\ [][CodecNext]_vars

HookNext == HookCall \/ HookCommandDone

InitHook ==
  KmIdle /\ gen = GenIdle /\ merge = MergeIdle /\ store = StoreIdle /\ pm = PmIdle
  /\ dlg = DlgIdle
  /\ codec = CodecIdle
  /\ hook = HookIdle
  /\ fileop = FileIdle
  /\ fx = FxIdle

SpecHook == InitHook /\ [][HookNext]_vars

FileNext ==
  \/ FileSwitchTab
  \/ EncBrowseFile \/ EncClearFile \/ setEncryptionUseArmor
  \/ handleAddRecipient \/ handleAddStoredKeyAsRecipient
  \/ handleUsePublicKey
  \/ removeEncryptionRecipient \/ handleEncrypt \/ EncryptDone
  \/ DecBrowseFile \/ DecClearFile \/ DecTypeIdentity
  \/ handleUseStoredKey \/ handleUsePrivateKey \/ handleLock
  \/ handleDecrypt \/ DecryptDone

InitFile ==
  KmIdle /\ gen = GenIdle /\ merge = MergeIdle /\ store = StoreIdle /\ pm = PmIdle
  /\ dlg = DlgIdle
  /\ codec = CodecIdle
  /\ hook = HookIdle
  /\ fileop = FileIdle
  /\ fx = FxIdle

SpecFile == InitFile /\ [][FileNext]_vars

ExplorerNext ==
  \/ HomeDirectoryDone \/ LoadDone
  \/ handleItemDoubleClick \/ goBack \/ goForward

\* after the first render and its effect; the parent passes no
\* acceptedExtensions, or ['.age']
InitExplorer ==
  KmIdle /\ gen = GenIdle /\ merge = MergeIdle /\ store = StoreIdle /\ pm = PmIdle
  /\ dlg = DlgIdle
  /\ codec = CodecIdle
  /\ hook = HookIdle
  /\ fileop = FileIdle
  /\ \E acceptedExtensions \in {NoExtensions, Extensions({".age"})} :
       fx = initializeExplorer(
              [FxIdle EXCEPT !.acceptedExtensions = acceptedExtensions])

SpecExplorer == InitExplorer /\ [][ExplorerNext]_vars


(***************************************************************************)
(* Properties of the key tab and the default vault (Spec)                  *)
(***************************************************************************)
Range(keys) == {keys[i] : i \in 1..Len(keys)}

NoDuplicateIds(keys) ==
  \A i, j \in 1..Len(keys) : i # j => keys[i].id # keys[j].id

SaveInFlight == \E t \in tasks : t.pc = "save"

\* C1: a record of the persisted vault leaves the persisted vault only when
\* its deletion was confirmed: every step keeps in the vault each record whose
\* id is not among the deleted ones.
C1_RemovedOnlyByDeletion ==
  [][\A r \in Range(vault.keys) :
       r.id \notin deleted' => r \in Range(vault'.keys)]_vars

\* C2: a confirmed deletion is durable: when no save call is outstanding, the
\* persisted vault holds no record whose deletion was confirmed and re-saved.
C2_DeletionDurable ==
  ~SaveInFlight => \A d \in durable : d \notin Ids(vault.keys)

\* C7: record ids are unique in the in-memory collection and in the vault,
\* whatever list an import returns.
C7_UniqueIds ==
  NoDuplicateIds(storedKeys) /\ NoDuplicateIds(vault.keys)

\* C8: whenever the tab reports an import as successful, the merged collection
\* is what the default vault holds: it was saved before the report.
C8_ImportSuccessSaved ==
  [][(toast' # toast /\ toast'.title = "Keys imported!")
       => vault' = Vault(toast'.keys)]_vars

ProvisioningDeclined == ~gen.confirmed

ProvisioningFailed ==
  /\ gen.confirmed
  /\ \/ gen.executed = "no"
     \/ gen.executed = "threw"
     \/ gen.executed = "exit" /\ gen.code # 0 /\ gen.code # NullCode

\* C10: when generation failed as tool not available and provisioning was
\* declined or failed (non-zero exit, unsupported OS, not executable), the
\* request rejects with the error of the first generation attempt and
\* generate_age_keys was invoked once only.
C10_OriginalErrorSurfaced ==
  (/\ gen.pc = "rejected"
   /\ gen.prompts = 1
   /\ ProvisioningDeclined \/ ProvisioningFailed)
  => /\ gen.thrown = gen.error /\ gen.error # NoError
     /\ gen.invocations = 1

C10_Witness ==
  /\ gen.pc = "rejected" /\ gen.prompts = 1
  /\ gen.confirmed /\ gen.executed = "exit" /\ gen.code = 1

\* The classification by cause: tool not available is the failure of a
\* subprocess that could not be started; every other failure is generic.
ToolNotAvailable(errorMessage) == errorMessage = ToolMissing

\* C11: provisioning is offered only for the tool-not-available
\* classification: a generation that failed for any other reason is followed
\* by no install prompt, no provisioning command and no second invocation.
C11_ProvisioningOnlyWhenToolMissing ==
  (gen.error # NoError /\ ~ToolNotAvailable(gen.error))
  => gen.prompts = 0 /\ gen.installs = 0 /\ gen.invocations = 1

(***************************************************************************)
(* Properties of the merge (SpecMerge)                                     *)
(***************************************************************************)
\* C6: the merged collection is the existing one, unchanged and in order,
\* followed by exactly the imported records whose id does not occur in the
\* existing one, in the order of the imported list; the report counts the
\* appended records as new and the rest of the imported list as duplicates.
C6_MergeOnImport ==
  merge.pc = "merged" =>
    LET E == merge.existing
        I == merge.imported
        M == merge.merged
        fresh == {i \in 1..Len(I) : \A j \in 1..Len(E) : E[j].id # I[i].id}
        rank(i) == Cardinality({j \in fresh : j <= i})
    IN /\ Len(M) = Len(E) + Cardinality(fresh)
       /\ \A j \in 1..Len(E) : M[j] = E[j]
       /\ \A i \in fresh : M[Len(E) + rank(i)] = I[i]
       /\ merge.report.new = Cardinality(fresh)
       /\ merge.report.duplicates = Len(I) - Cardinality(fresh)

\* existing [{id:1},{id:2}], imported [{id:2},{id:3}]: 1 new, 1 duplicate.
C6_Witness ==
  /\ merge.pc = "merged"
  /\ [i \in 1..Len(merge.existing) |-> merge.existing[i].id] = <<1, 2>>
  /\ [i \in 1..Len(merge.imported) |-> merge.imported[i].id] = <<2, 3>>
  /\ [i \in 1..Len(merge.merged) |-> merge.merged[i].id] = <<1, 2, 3>>
  /\ merge.report = [new |-> 1, duplicates |-> 1]

(***************************************************************************)
(* Properties of the vault store (SpecVault)                               *)
(***************************************************************************)
LiveVault == store.files[VaultPath]

\* C3: save is atomic with respect to crashes: in every state, a crash
\* between the writes and the rename included, the live vault file is absent
\* (never saved) or is, whole, the blob of the list committed last.
C3_AtomicSave ==
  IF LiveVault.exists
  THEN LiveVault.data = Blob(store.committed)
  ELSE store.lastRename = 0

\* a crash with a temporary file partly written, over a committed vault
C3_Witness ==
  /\ store.crashed
  /\ LiveVault.exists
  /\ \E c \in SaveCalls :
       /\ store.call[c].pc = "crashed"
       /\ store.call[c].written = 1
       /\ store.call[c].keys # store.committed

Finished(c) == store.call[c].pc \in {"done", "failed"}

C5_SamePassphrase == Cardinality(pm.returned) <= 1

(***************************************************************************)
(* Properties of the export and import dialogs (SpecDialog)                *)
(***************************************************************************)
ShortExport ==
  handleExportConfirm /\ Len(dlg'.captured) < MinPassphraseLength

ShortImport ==
  DlgImportConfirm /\ Len(dlg'.captured) < MinPassphraseLength

NothingStarted ==
  /\ dlg'.pc = "idle"
  /\ dlg'.exportCalls = dlg.exportCalls /\ dlg'.importCalls = dlg.importCalls
  /\ dlg'.storedKeys = dlg.storedKeys /\ dlg'.vault = dlg.vault

\* C12: a confirm of the export or of the import dialog with a passphrase of
\* fewer than 4 characters reports a validation error, invokes neither
\* export_keys_cmd nor import_keys_cmd, and leaves the in-memory collection
\* and the persisted vault as they were; a command that is awaited was given
\* a passphrase of 4 characters at least.
C12_MinLengthEnforced ==
  [][/\ ShortExport => dlg'.toast = "Passphrase too short" /\ NothingStarted
     /\ ShortImport =>
          /\ dlg'.toast = "Enter the passphrase used during export"
          /\ NothingStarted
     /\ dlg'.pc \in {"savePicker", "exportCmd", "importCmd"}
          => Len(dlg'.captured) >= MinPassphraseLength]_vars

\* both dialogs have refused a passphrase of 3 characters
C12_Witness ==
  /\ dlg.refused = {"export", "import"}
  /\ dlg.exportCalls = 0 /\ dlg.importCalls = 0
  /\ Len(dlg.captured) = MinPassphraseLength - 1
  /\ dlg.toast = "Enter the passphrase used during export"

(***************************************************************************)
(* Properties of the vault codec and of load (SpecCodec)                   *)
(***************************************************************************)
WrongPassphrase(path, passphrase) ==
  /\ FileExists(codec.files, path)
  /\ codec.files[path].version = KnownVersion
  /\ codec.saved[path].intact
  /\ codec.saved[path].passphrase # passphrase

Corrupted(path, passphrase) ==
  /\ FileExists(codec.files, path)
  /\ codec.files[path].version = KnownVersion
  /\ ~codec.saved[path].intact
  /\ codec.saved[path].passphrase = passphrase

\* C13: a load of a path that has no file fails as not found, and what its
\* caller gets differs from what the caller of a load of an existing vault
\* with a wrong passphrase gets.
C13_NotFoundDistinct ==
  /\ (codec.last.kind = "load" /\ ~FileExists(codec.files, codec.last.path))
       => codec.last.result =
            Err(<<"Failed to load key storage: ">> \o NotFound)
  /\ \A p, q \in CodecPaths : \A a, b \in CodecPassphrases :
       (~FileExists(codec.files, p) /\ WrongPassphrase(q, b))
       => /\ ~loadKeyStorage(VaultStoreLoad(codec.files, q, b).result).ok
          /\ loadKeyStorage(VaultStoreLoad(codec.files, p, a).result).error
               # loadKeyStorage(VaultStoreLoad(codec.files, q, b).result).error

\* a load of a missing path, while the other path holds a vault saved under
\* another passphrase
C13_Witness ==
  /\ codec.last.kind = "load" /\ ~FileExists(codec.files, codec.last.path)
  /\ ~codec.last.result.ok
  /\ \E q \in CodecPaths : WrongPassphrase(q, codec.last.passphrase)

\* C15: decrypt(passphrase, encrypt(passphrase, records)) is records, for every
\* record list, the empty one included, and every passphrase; a load of a path
\* after a save of it with the same passphrase returns the saved list.
C15_RoundTrip ==
  /\ \A passphrase \in CodecPassphrases : \A records \in CodecLists :
       VaultCodecDecrypt(passphrase,
         VaultCodecEncrypt(passphrase, records, codec.fresh, codec.fresh))
       = Ok(records)
  /\ (/\ codec.last.kind = "load"
      /\ FileExists(codec.files, codec.last.path)
      /\ codec.files[codec.last.path].version = KnownVersion
      /\ codec.saved[codec.last.path].intact
      /\ codec.saved[codec.last.path].passphrase = codec.last.passphrase)
     => codec.last.result = Ok(codec.saved[codec.last.path].keys)

\* a list with a record that has a private key and one that has none was
\* saved and loaded, while the other path holds a saved empty list
C15_Witness ==
  /\ codec.last.kind = "load" /\ codec.last.result.ok
  /\ Len(codec.last.result.value) = 2
  /\ \E i, j \in 1..2 : /\ codec.last.result.value[i].privateKey = ""
                         /\ codec.last.result.value[j].privateKey # ""
  /\ \E q \in CodecPaths :
       /\ FileExists(codec.files, q) /\ codec.saved[q].keys = <<>>
       /\ VaultCodecDecrypt(codec.saved[q].passphrase, codec.files[q]) = Ok(<<>>)

\* C16: decrypting a vault with a wrong passphrase and decrypting a corrupted
\* vault with the right passphrase give the same single error.
C16_OpaqueFailure ==
  \A p, q \in CodecPaths : \A a, b \in CodecPassphrases :
    (WrongPassphrase(p, a) /\ Corrupted(q, b))
    => /\ VaultCodecDecrypt(a, codec.files[p]) = Err(DecryptionFailed)
       /\ VaultCodecDecrypt(b, codec.files[q]) = Err(DecryptionFailed)
       /\ loadKeyStorage(VaultStoreLoad(codec.files, p, a).result) = loadKeyStorage(VaultStoreLoad(codec.files, q, b).result)

\* a corrupted vault was loaded with its passphrase, while the other path
\* holds an intact vault of another passphrase
C16_Witness ==
  /\ codec.last.kind = "load" /\ ~codec.last.result.ok
  /\ Corrupted(codec.last.path, codec.last.passphrase)
  /\ \E p \in CodecPaths, a \in CodecPassphrases : WrongPassphrase(p, a)

UnknownVersion(path) ==
  FileExists(codec.files, path) /\ codec.files[path].version # KnownVersion

\* C17: a file whose version is not the known one is rejected by the decoder
\* for every passphrase, and the key derivation is not run for it.
C17_UnknownVersionRejected ==
  /\ \A path \in CodecPaths : \A passphrase \in CodecPassphrases :
       UnknownVersion(path)
       => Decode(passphrase, codec.files[path]) =
            [derived |-> FALSE, result |-> Err(UnsupportedVersion)]
  /\ (codec.last.kind = "load" /\ UnknownVersion(codec.last.path))
       => ~codec.last.result.ok /\ ~codec.last.derived

\* a file of a later version was loaded with the passphrase it was saved under
C17_Witness ==
  /\ codec.last.kind = "load" /\ UnknownVersion(codec.last.path)
  /\ codec.saved[codec.last.path].passphrase = codec.last.passphrase
  /\ codec.saved[codec.last.path].intact
  /\ ~codec.last.result.ok

(***************************************************************************)
(* Properties of useKeyStore (SpecHook)                                    *)
(***************************************************************************)
\* C14: no failure is swallowed: whenever the command behind the existence
\* check, load, save, export or import fails, the caller of the function
\* observes a failure, not a normal result.
C14_FailuresSurface ==
  \A i \in 1..Len(hook.log) :
    ~hook.log[i].command.ok => ~hook.log[i].observed.ok

(***************************************************************************)
(* Properties of the Encrypt and Decrypt tabs (SpecFile)                   *)
(***************************************************************************)
NotBlank(text) == \E i \in 1..Len(text) : text[i] # Blank

EncryptReady ==
  /\ fileop.encryption.selectedFile # <<>>
  /\ fileop.encryption.outputFile # <<>>
  /\ Len(fileop.encryption.recipients) >= 1

DecryptReady ==
  /\ fileop.decryption.selectedFile # <<>>
  /\ fileop.decryption.outputFile # <<>>
  /\ NotBlank(fileop.decryption.identity)

NoFileCommand ==
  /\ fileop'.inFlight = fileop.inFlight
  /\ fileop'.toast.type = "error"

\* C18: encrypt_file_cmd is invoked only with a selected input path, a
\* non-empty output path and at least one recipient, decrypt_file_cmd only
\* with a selected input path, a non-empty output path and a non-blank
\* identity; a click on Encrypt or Decrypt without them shows an error
\* instead.
C18_ValidationBeforeFileCommand ==
  [][/\ (handleEncrypt /\ ~EncryptReady) => NoFileCommand
     /\ (handleDecrypt /\ ~DecryptReady) => NoFileCommand
     /\ fileop'.inFlight.encrypt > fileop.inFlight.encrypt => EncryptReady
     /\ fileop'.inFlight.decrypt > fileop.inFlight.decrypt => DecryptReady]_vars

\* Encrypt was refused for want of a recipient and Decrypt for a blank
\* identity, both with their paths set, and no command is in flight
C18_Witness ==
  /\ fileop.refused = {"encrypt", "decrypt"}
  /\ fileop.inFlight = [encrypt |-> 0, decrypt |-> 0]
  /\ fileop.encryption.selectedFile # <<>>
  /\ fileop.encryption.outputFile # <<>>
  /\ fileop.encryption.recipients = <<>>
  /\ fileop.decryption.selectedFile # <<>>
  /\ fileop.decryption.outputFile # <<>>
  /\ fileop.decryption.identity = <<Blank, Blank>>
  /\ fileop.toast = FileToast("error", "Missing private key")

\* a stored record without privateKey is used as the decryption identity
UsesRecordWithoutPrivateKey ==
  /\ handleUseStoredKey \/ handleUsePrivateKey
  /\ \E storedKey \in TabKeys :
       storedKey.id = fileop'.last.id /\ storedKey.privateKey = <<>>

C24_OneEncryptionInFlight == fileop.inFlight.encrypt <= 1

EncryptCompleted == fileop'.inFlight.encrypt < fileop.inFlight.encrypt
DecryptCompleted == fileop'.inFlight.decrypt < fileop.inFlight.decrypt

EmptyEncryption ==
  [selectedFile |-> <<>>, outputFile |-> <<>>, recipients |-> <<>>,
   useArmor |-> FALSE]
EmptyDecryption == [selectedFile |-> <<>>, outputFile |-> <<>>, identity |-> <<>>]

\* C25: when an encryption (decryption) completes, the shared encryption
\* (decryption) state is either reset to its initial empty value or left
\* exactly as it was, and the other state is not touched; the instance
\* that awaited it reports success with the reset and failure with the
\* state left as it was.
C25_CompletionEffect ==
  [][/\ EncryptCompleted =>
          /\ fileop'.decryption = fileop.decryption
          /\ fileop'.encryption \in {fileop.encryption, EmptyEncryption}
          /\ (fileop.isEncrypting /\ ~fileop'.isEncrypting) =>
               \/ /\ fileop'.toast = FileToast("success", "Encryption successful!")
                  /\ fileop'.encryption = EmptyEncryption
               \/ /\ fileop'.toast = FileToast("error", "Encryption failed")
                  /\ fileop'.encryption = fileop.encryption
     /\ DecryptCompleted =>
          /\ fileop'.encryption = fileop.encryption
          /\ fileop'.decryption \in {fileop.decryption, EmptyDecryption}
          /\ (fileop.isDecrypting /\ ~fileop'.isDecrypting) =>
               \/ /\ fileop'.toast = FileToast("success", "Decryption successful!")
                  /\ fileop'.decryption = EmptyDecryption
               \/ /\ fileop'.toast = FileToast("error", "Decryption failed")
                  /\ fileop'.decryption = fileop.decryption]_vars

\* an armored encryption failed: the request is still in the form
C25_Witness ==
  /\ fileop.toast = FileToast("error", "Encryption failed")
  /\ fileop.inFlight.encrypt = 0
  /\ fileop.encryption = [selectedFile |-> InputPath, outputFile |-> AutoOutputPath,
                          recipients |-> << <<"age1a">> >>, useArmor |-> TRUE]

\* C26: the recipient list never holds the same public key twice, whether
\* recipients are typed, added from the saved keys of the Encrypt tab, added
\* from the key tab, or removed.
C26_NoDuplicateRecipients ==
  \A i, j \in 1..Len(fileop.encryption.recipients) :
    fileop.encryption.recipients[i] = fileop.encryption.recipients[j] => i = j

\* C27: after Lock, and until the keys are loaded again, no private key of a
\* stored record is in the in-memory state: neither in the collection nor as
\* the decryption identity.
C27_LockClearsPrivateKeys ==
  fileop.storedKeys = {} =>
    \A storedKey \in TabKeys :
      storedKey.privateKey # <<>> =>
        fileop.decryption.identity # storedKey.privateKey

(***************************************************************************)
(* Properties of the stored records (Spec)                                 *)
(***************************************************************************)
\* C20: stored records are never edited in place: whatever the operation
\* (store, delete, import merge, load, lock), a record whose id is in the
\* collection before and after it has the same publicKey and privateKey
\* before and after.  createdAt is copied along with the record by every
\* handler and no handler reads it, so the model's records do not carry it.
\* Where an imported list has put several records of one id into the
\* collection, a record after the operation is unedited if it is one of the
\* records of that id before it.
RecordsOf(keys, id) == {keys[i] : i \in {n \in 1..Len(keys) : keys[n].id = id}}

C20_NoInPlaceEdit ==
  [][\A id \in Ids(storedKeys) \cap Ids(storedKeys') :
       RecordsOf(storedKeys', id) \subseteq RecordsOf(storedKeys, id)]_vars

\* C21: no record has an empty publicKey: after any sequence of generate,
\* edit before store, store and import, every record of the in-memory
\* collection and of the saved vault has a non-empty publicKey.
C21_PublicKeyNeverEmpty ==
  \A r \in Range(storedKeys) \cup Range(vault.keys) : r.publicKey # ""

\* C22: a deleted key is not resurrected by an operation in flight: when a
\* store or an import that was started before a deletion completes, or
\* saves, no id whose deletion was confirmed (and which was not imported
\* again) comes back into the in-memory collection or into the vault.
C22_NoResurrection ==
  [][/\ (StoreCreateDone \/ ImportCmdDone) =>
          \A d \in deleted' : d \in Ids(storedKeys') => d \in Ids(storedKeys)
     /\ (StoreSaveDone \/ ImportSaveDone) =>
          \A d \in deleted' : d \in Ids(vault'.keys) => d \in Ids(vault.keys)]_vars

\* C23: a failed import has no effect on the key collection: when an import
\* is reported as failed (import_keys_cmd rejected, or the save that follows
\* it rejected), the in-memory collection holds no record that it did not
\* hold when the import was confirmed.
C23_FailedImportNoEffect ==
  [][\A t \in tasks :
       (/\ t.kind = "import" /\ t \notin tasks'
        /\ toast' # toast /\ toast'.title = "Import failed")
       => Range(storedKeys') \subseteq Range(t.before)]_vars

(***************************************************************************)
(* Properties of the FileExplorer (SpecExplorer)                           *)
(***************************************************************************)

\* C28: the initialisation of the FileExplorer terminates: after mounting,
\* with no user input, the explorer navigates to the home directory (or to
\* '/') once, and then the path history stops growing: it holds the initial
\* '/' and the one path navigated to.
C28_InitialisationTerminates ==
  fx.ops = 0 => /\ fx.initNavigations <= 1
                /\ Len(fx.nav.pathHistory) <= 2

NoLoadInFlight == \A path \in FxPaths : fx.loads[path] = 0

\* C29: the listing on display matches the current directory: whenever no
\* directory load is in flight and a load has returned, the file list is
\* the result of the load issued for currentPath, in whatever order the
\* loads returned.  Stated for the states in which the initialisation has
\* navigated once at most.
C29_ListingMatchesCurrentPath ==
  (NoLoadInFlight /\ fx.files.of # "" /\ fx.initNavigations <= 1)
  => /\ fx.files.of = fx.nav.currentPath
     /\ fx.files.items \in {{}, FilteredContents(fx.acceptedExtensions,
                                                 Contents(fx.nav.currentPath))}

HistoryIndexInRange(nav) ==
  /\ 0 <= nav.historyIndex
  /\ nav.historyIndex < Len(nav.pathHistory)
  /\ nav.currentPath = nav.pathHistory[nav.historyIndex + 1]

\* C30: the navigation history stays consistent: after every step,
\* 0 <= historyIndex < length(pathHistory) and currentPath is
\* pathHistory[historyIndex]; a step of navigateTo leaves the entries up to
\* the current index, followed by the new path; and after goBack, goForward
\* returns to the path goBack left.
C30_HistoryConsistent ==
  [][/\ HistoryIndexInRange(fx'.nav)
     /\ (HomeDirectoryDone \/ handleItemDoubleClick) =>
          fx'.nav.pathHistory =
            Append(SubSeq(fx.nav.pathHistory, 1, fx.nav.historyIndex + 1),
                   fx'.nav.currentPath)
     /\ goBack => GoForward(fx'.nav).currentPath = fx.nav.currentPath]_vars

=============================================================================
